---------------------------- MODULE Spec2Model ----------------------------
(***************************************************************************)
(* Biometric access decision engine: the R307 sensor listener              *)
(* (sensor_interface.py), the biometric query service                      *)
(* (biometric_service.py) and the storage collaborator (database.py); and  *)
(* the gate access system of deep/ (principal/main.py, biometria/,         *)
(* database/, hardware/), which matches numeric vectors by similarity.     *)
(*                                                                         *)
(* Text is a sequence of symbols.  A symbol is one character ("Q", "=",    *)
(* ":", " ", ...) or an unbroken run of letters that holds neither a       *)
(* delimiter nor white space ("QUERY", "index_right").  Bytes are numbers  *)
(* 0..255.  Python's None is the empty sequence and a value x that may be  *)
(* None is the one-element sequence <<x>>.                                 *)
(***************************************************************************)
EXTENDS Integers, Sequences, FiniteSets, TLC

(***************************************************************************)
(* Bounds of the model.                                                    *)
(***************************************************************************)
MaxTemplateLen == 4
MaxCycles == 1

None == <<>>
Some(x) == <<x>>

(***************************************************************************)
(* Enumerations of biometric_service.py.                                   *)
(***************************************************************************)
GRANTED == "GRANTED"
DENIED == "DENIED"
ERROR == "ERROR"

FingerType ==
    << "thumb_right", "index_right", "middle_right", "ring_right", "pinky_right",
       "thumb_left", "index_left", "middle_left", "ring_left", "pinky_left" >>

\* FingerType(finger) succeeds: finger is the value of a member.
IsFingerType(finger) == \E i \in 1..Len(FingerType) : << FingerType[i] >> = finger

\* config.sensor.device
SensorDevice == "R307"

(***************************************************************************)
(* Text helpers: str.strip(), str.split(':'), str.upper().                 *)
(***************************************************************************)
IsSpace(c) == c \in {" ", "\n"}

RECURSIVE LStrip(_)
LStrip(s) == IF s # <<>> /\ IsSpace(Head(s)) THEN LStrip(Tail(s)) ELSE s

RECURSIVE RStrip(_)
RStrip(s) ==
    IF s # <<>> /\ IsSpace(s[Len(s)]) THEN RStrip(SubSeq(s, 1, Len(s) - 1)) ELSE s

Strip(s) == RStrip(LStrip(s))

\* s.split(':'): the fields between the delimiters, empty fields kept.
RECURSIVE SplitFrom(_, _, _)
SplitFrom(s, i, field) ==
    IF i > Len(s) THEN << field >>
    ELSE IF s[i] = ":" THEN << field >> \o SplitFrom(s, i + 1, <<>>)
    ELSE SplitFrom(s, i + 1, Append(field, s[i]))

Split(s) == SplitFrom(s, 1, <<>>)

UpperSym(c) ==
    CASE c = "query" -> "QUERY"
      [] c = "verify" -> "VERIFY"
      [] c = "test" -> "TEST"
      [] c = "ping" -> "PING"
      [] OTHER -> c

Upper(s) == [i \in 1..Len(s) |-> UpperSym(s[i])]

(***************************************************************************)
(* base64.b64decode(s) with validate=False, as binascii.a2b_base64 does    *)
(* it: characters outside the alphabet are discarded, "=" counts as        *)
(* padding only once two characters of a quad are read, decoding stops at  *)
(* complete padding, and an incomplete last quad is an error.              *)
(***************************************************************************)
\* The alphabet's table, for the characters templates are made of here.
B64Index(c) ==
    CASE c = "A" -> 0
      [] c = "Q" -> 16
      [] c = "g" -> 32
      [] OTHER -> 64

RECURSIVE A2B(_, _, _, _, _, _)
A2B(s, i, quad_pos, leftchar, pads, out) ==
    IF i > Len(s)
    THEN IF quad_pos = 0
         THEN [ok |-> TRUE, data |-> out]
         ELSE [ok |-> FALSE, data |-> <<>>]
    ELSE LET this_ch == B64Index(s[i]) IN
         IF s[i] = "="
         THEN IF quad_pos >= 2 /\ quad_pos + pads + 1 >= 4
              THEN [ok |-> TRUE, data |-> out]
              ELSE A2B(s, i + 1, quad_pos, leftchar,
                       IF quad_pos >= 2 THEN pads + 1 ELSE pads, out)
         ELSE IF this_ch >= 64
         THEN A2B(s, i + 1, quad_pos, leftchar, pads, out)
         ELSE CASE quad_pos = 0 ->
                     A2B(s, i + 1, 1, this_ch, 0, out)
                [] quad_pos = 1 ->
                     A2B(s, i + 1, 2, this_ch % 16, 0,
                         Append(out, (leftchar * 4 + this_ch \div 16) % 256))
                [] quad_pos = 2 ->
                     A2B(s, i + 1, 3, this_ch % 4, 0,
                         Append(out, (leftchar * 16 + this_ch \div 4) % 256))
                [] OTHER ->
                     A2B(s, i + 1, 0, 0, 0,
                         Append(out, (leftchar * 64 + this_ch) % 256))

B64Decode(s) == A2B(s, 1, 0, 0, 0, <<>>)


(***************************************************************************)
(* State.                                                                  *)
(*   biometrics     the enrolled templates the storage collaborator holds, *)
(*                  each joined with its person ("Biometric" x "Person")   *)
(*   unit_info      BiometricQueryService.unit_info, set at construction   *)
(*   construction   what the call of the service's constructor did: the    *)
(*                  unit_code asked for and what the storage answered      *)
(*                  (None before the constructor is called)                *)
(*   access_logs    the "AccessLog" table, in insertion order              *)
(*   pc             the listener's position in one iteration of its loop   *)
(*   line           the line the iteration read from the serial port      *)
(*   command        local of listen_for_commands: the parsed command       *)
(*   response       local of listen_for_commands: the response             *)
(*   query          the iteration's call of process_biometric_query: what  *)
(*                  it did, what it returned and whether an exception left *)
(*                  it (None when the iteration made no call)              *)
(*   sensor_response  local of _send_response, "" before it is computed    *)
(*   written        everything written to the serial port, one element     *)
(*                  per write, each a sequence of bytes                    *)
(*   n_cycles, n_nonempty, n_queries, n_lookups, n_log_calls               *)
(*                  counts of loop iterations, of non-empty lines read, of *)
(*                  calls of process_biometric_query, of                   *)
(*                  find_biometric_by_template and of log_access_attempt   *)
(*   stop           None while the listener runs; once listen_for_commands *)
(*                  has returned, why (an interrupt, an exception) and     *)
(*                  where in the iteration it was                          *)
(*   is_open        serial_connection.is_open: the port to the sensor is   *)
(*                  open                                                   *)
(*   results        what a client that calls process_biometric_query       *)
(*                  itself, one query after the other, got back so far     *)
(* State of the gate access system (deep/):                                *)
(*   biometric_templates  the table of that name: user_id, the encrypted   *)
(*                  template, is_active                                    *)
(*   gate_logs      its table access_logs, in insertion order              *)
(*   apc            the position of BiometricAccessSystem.run in one       *)
(*                  iteration of its loop                                  *)
(*   sensor_data    locals of run: << user_id, template >>                 *)
(*   access_granted local of run, None before compare_templates returns    *)
(*   compared       what that call of compare_templates did                *)
(*   gpio           the level of the gate's pin                            *)
(*   n_readings, n_compared, n_log_access                                  *)
(*                  counts of loop iterations, of calls of                 *)
(*                  compare_templates and of calls of log_access           *)
(*   run_stop       None while run runs; once it has returned, why and     *)
(*                  where in the iteration it was                          *)
(*   open_resources what __init__ opened and nothing has released yet: the *)
(*                  sensor's port, the GPIO, the system's database        *)
(*                  connection and the matcher's                           *)
(***************************************************************************)
VARIABLES biometrics, unit_info, construction, access_logs, pc, line, command, response,
          query, sensor_response, written,
          n_cycles, n_nonempty, n_queries, n_lookups, n_log_calls,
          stop, is_open, results,
          biometric_templates, gate_logs, apc, sensor_data, access_granted,
          compared, gpio, n_readings, n_compared, n_log_access, run_stop,
          open_resources

vars == << biometrics, unit_info, construction, access_logs, pc, line, command, response,
           query, sensor_response, written,
           n_cycles, n_nonempty, n_queries, n_lookups, n_log_calls,
           stop, is_open, results,
           biometric_templates, gate_logs, apc, sensor_data, access_granted,
           compared, gpio, n_readings, n_compared, n_log_access, run_stop,
       open_resources >>

\* The state of the query system (biometric_query_system/).
listener_vars ==
    << biometrics, unit_info, construction, access_logs, pc, line, command,
       response, query, sensor_response, written, n_cycles, n_nonempty, n_queries, n_lookups,
       n_log_calls, stop, is_open, results >>

\* The state of the gate access system (deep/).
access_vars ==
    << biometric_templates, gate_logs, apc, sensor_data, access_granted,
       compared, gpio, n_readings, n_compared, n_log_access, run_stop,
       open_resources >>

\* What the listener loop never touches.
outside_listener == << results, access_vars >>

(***************************************************************************)
(* Enrolled data.  A row is what the query of find_biometric_by_template   *)
(* selects, with the template column it filters on.                        *)
(***************************************************************************)
Row(person_id, full_name, cpf, person_type, finger, template) ==
    [person_id |-> person_id, full_name |-> full_name, cpf |-> cpf,
     person_type |-> person_type, finger |-> << finger >>, template |-> template]

JoaoIndex ==
    Row(1, "Joao Silva", "123.456.789-00", "student", "index_right", << 65 >>)
MariaThumb ==
    Row(2, "Maria Santos", "987.654.321-00", "teacher", "thumb_left", << 65, 4 >>)
JoseThumb ==
    Row(3, "Jose Silva", "456.789.123-00", "teacher", "thumb_left", << 65 >>)
AnaIndex ==
    Row(4, "Ana Souza", "321.654.987-00", "staff", "index_right", << 65 >>)

EnrolledSets ==
    { {JoaoIndex, MariaThumb}, {JoaoIndex, JoseThumb, AnaIndex} }

\* get_unit_by_code found the unit, or _initialize_unit made the default one.
UnitInfos ==
    { [id |-> 2, name |-> "ETEC Sao Paulo", unit_code |-> "ETEC01"],
      [id |-> 1, name |-> "Default Unit", unit_code |-> "DEFAULT"] }

\* The "Unit" table.
Units == { [id |-> 2, name |-> "ETEC Sao Paulo", unit_code |-> "ETEC01"] }

(***************************************************************************)
(* DatabaseManager.get_unit_by_code: the outcomes of one call.  The        *)
(* connection or the query may fail (re-raised); otherwise the call        *)
(* returns the row WHERE unit_code = %s, or None when there is none.       *)
(***************************************************************************)
get_unit_by_code(unit_code) ==
    { [raised |-> TRUE, unit |-> None] }
    \cup
    ( IF \A u \in Units : u.unit_code # unit_code
      THEN { [raised |-> FALSE, unit |-> None] }
      ELSE { [raised |-> FALSE, unit |-> Some(u)] :
                 u \in { v \in Units : v.unit_code = unit_code } } )

\* The default unit entry _initialize_unit creates for logging purposes.
default_unit(unit_code) ==
    [id |-> 1, name |-> "Default Unit", unit_code |-> unit_code]

\* Variant: when the storage raises, the default unit is used as well.
initialize_unit_swallowing(unit_code, got) ==
    IF got.raised \/ got.unit = None
    THEN [raised |-> FALSE, unit_info |-> Some(default_unit(unit_code))]
    ELSE [raised |-> FALSE, unit_info |-> got.unit]

\* BiometricQueryService._initialize_unit: [raised, unit_info].
initialize_unit(unit_code, got) ==
    IF got.raised THEN [raised |-> TRUE, unit_info |-> None]
    ELSE IF got.unit = None
    THEN [raised |-> FALSE, unit_info |-> Some(default_unit(unit_code))]
    ELSE [raised |-> FALSE, unit_info |-> got.unit]

\* What a constructor call that ended with this unit_info did.
ConstructionOf(info) ==
    [unit_code |-> info.unit_code,
     got |-> [raised |-> FALSE,
              unit |-> IF info \in Units THEN Some(info) ELSE None]]

(***************************************************************************)
(* BiometricQueryService                                                   *)
(***************************************************************************)
\* Variant: the finger is checked before the template.
validate_input_finger_first(template_base64, finger) ==
    IF ~IsFingerType(finger)
    THEN [valid |-> FALSE,
          error |-> << "Invalid finger type. Valid options: " >> \o FingerType]
    ELSE IF template_base64 = <<>> \/ Strip(template_base64) = <<>>
    THEN [valid |-> FALSE, error |-> << "Template data is required" >>]
    ELSE IF ~B64Decode(template_base64).ok
    THEN [valid |-> FALSE, error |-> << "Invalid base64 template format" >>]
    ELSE [valid |-> TRUE, error |-> None]

\* Variant: only the empty string counts as a missing template.
validate_input_no_strip(template_base64, finger) ==
    IF template_base64 = <<>>
    THEN [valid |-> FALSE, error |-> << "Template data is required" >>]
    ELSE IF ~IsFingerType(finger)
    THEN [valid |-> FALSE,
          error |-> << "Invalid finger type. Valid options: " >> \o FingerType]
    ELSE IF ~B64Decode(template_base64).ok
    THEN [valid |-> FALSE, error |-> << "Invalid base64 template format" >>]
    ELSE [valid |-> TRUE, error |-> None]

valid_fingers == FingerType

validate_input(template_base64, finger) ==
    IF template_base64 = <<>> \/ Strip(template_base64) = <<>>
    THEN [valid |-> FALSE, error |-> << "Template data is required" >>]
    ELSE IF ~IsFingerType(finger)
    THEN [valid |-> FALSE,
          error |-> << "Invalid finger type. Valid options: " >> \o valid_fingers]
    ELSE IF ~B64Decode(template_base64).ok
    THEN [valid |-> FALSE, error |-> << "Invalid base64 template format" >>]
    ELSE [valid |-> TRUE, error |-> None]

\* [raised, data]: the bytes, or the ValueError of an undecodable template.
convert_template(template_base64) ==
    LET d == B64Decode(template_base64) IN
    IF d.ok THEN [raised |-> FALSE, data |-> d.data, e |-> None]
    ELSE [raised |-> TRUE, data |-> <<>>, e |-> << "Invalid template format" >>]

(***************************************************************************)
(* DatabaseManager.find_biometric_by_template: the outcomes of one call.   *)
(* The connection or the query may fail (psycopg2.Error, re-raised);       *)
(* otherwise the call returns one row WHERE template = %s AND finger = %s  *)
(* (LIMIT 1 without ORDER BY: any of them), or None when there is none.    *)
(***************************************************************************)
\* Variant: the finger column is left out of the WHERE clause.
Matching_any_finger(template_data, finger) ==
    { b \in biometrics : b.template = template_data }

Matching(template_data, finger) ==
    { b \in biometrics : b.template = template_data /\ b.finger = finger }

PersonInfo(b) ==
    [person_id |-> b.person_id, full_name |-> b.full_name, cpf |-> b.cpf,
     person_type |-> b.person_type, finger |-> b.finger]

find_biometric_by_template(template_data, finger) ==
    { [raised |-> TRUE, row |-> None, e |-> << "Database query error" >>] }
    \cup
    ( IF Matching(template_data, finger) = {}
      THEN { [raised |-> FALSE, row |-> None, e |-> None] }
      ELSE { [raised |-> FALSE, row |-> Some(PersonInfo(b)), e |-> None] :
                 b \in Matching(template_data, finger) } )

(***************************************************************************)
(* DatabaseManager.log_access_attempt: inserts one row and returns its id, *)
(* or raises and inserts nothing (insert_ok = FALSE).                      *)
(***************************************************************************)
\* Variant: the log keeps the latest entry only.
db_log_access_attempt_latest_only(logs, person_id, unit_id, device, python_verified, insert_ok) ==
    IF insert_ok
    THEN [raised |-> FALSE,
          logs |-> << [id |-> Len(logs) + 1,
                       person_id |-> person_id,
                       unit_id |-> unit_id,
                       biometric_device |-> device,
                       python_verified |-> python_verified] >>]
    ELSE [raised |-> TRUE, logs |-> logs]

db_log_access_attempt(logs, person_id, unit_id, device, python_verified, insert_ok) ==
    IF insert_ok
    THEN [raised |-> FALSE,
          logs |-> Append(logs, [id |-> Len(logs) + 1,
                                 person_id |-> person_id,
                                 unit_id |-> unit_id,
                                 biometric_device |-> device,
                                 python_verified |-> python_verified])]
    ELSE [raised |-> TRUE, logs |-> logs]

\* Variant: every entry is marked as verified.
log_access_attempt_always_verified(logs, person_info, access_result, insert_ok) ==
    LET person_id == IF person_info # None
                     THEN Some(person_info[1].person_id) ELSE None
        done == db_log_access_attempt(logs, person_id, unit_info.id,
                                      SensorDevice, TRUE, insert_ok)
    IN  [raised |-> FALSE, logs |-> done.logs]

\* Variant: a failure of the insert is not swallowed.
log_access_attempt_raising(logs, person_info, access_result, insert_ok) ==
    LET person_id == IF person_info # None
                     THEN Some(person_info[1].person_id) ELSE None
        done == db_log_access_attempt(logs, person_id, unit_info.id,
                                      SensorDevice, access_result = GRANTED,
                                      insert_ok)
    IN  [raised |-> done.raised, logs |-> done.logs]

(***************************************************************************)
(* BiometricQueryService._log_access_attempt: [raised, logs].  The except  *)
(* clause swallows a failure of the insert.                                *)
(***************************************************************************)
log_access_attempt(logs, person_info, access_result, insert_ok) ==
    LET person_id == IF person_info # None
                     THEN Some(person_info[1].person_id) ELSE None
        unit_id == unit_info.id
        python_verified == (access_result = GRANTED)
        done == db_log_access_attempt(logs, person_id, unit_id, SensorDevice,
                                      python_verified, insert_ok)
    IN  [raised |-> FALSE, logs |-> done.logs]

\* Variant: access is granted unless the result is ERROR.
create_response_granted_unless_error(access_result, person_info) ==
    [access_granted |-> (access_result # ERROR),
     result |-> access_result,
     timestamp |-> None,
     unit_code |-> unit_info.unit_code,
     device |-> SensorDevice,
     person |-> IF person_info # None
                THEN Some([id |-> person_info[1].person_id,
                           name |-> person_info[1].full_name,
                           cpf |-> person_info[1].cpf,
                           type |-> person_info[1].person_type,
                           finger_used |-> person_info[1].finger])
                ELSE None]

\* Variant: every response carries an error key, None when there is no error.
create_response_with_error_key(access_result, person_info) ==
    [access_granted |-> (access_result = GRANTED),
     result |-> access_result,
     error |-> None,
     timestamp |-> None,
     unit_code |-> unit_info.unit_code,
     device |-> SensorDevice,
     person |-> IF person_info # None
                THEN Some([id |-> person_info[1].person_id,
                           name |-> person_info[1].full_name,
                           cpf |-> person_info[1].cpf,
                           type |-> person_info[1].person_type,
                           finger_used |-> person_info[1].finger])
                ELSE None]

create_response(access_result, person_info) ==
    [access_granted |-> (access_result = GRANTED),
     result |-> access_result,
     timestamp |-> None,
     unit_code |-> unit_info.unit_code,
     device |-> SensorDevice,
     person |-> IF person_info # None
                THEN Some([id |-> person_info[1].person_id,
                           name |-> person_info[1].full_name,
                           cpf |-> person_info[1].cpf,
                           type |-> person_info[1].person_type,
                           finger_used |-> person_info[1].finger])
                ELSE None]

\* Variant: the unit of the response is the default one, not the one the
\* service was constructed for.
create_error_response_default_unit(error_message) ==
    [access_granted |-> FALSE,
     result |-> ERROR,
     error |-> error_message,
     timestamp |-> None,
     unit_code |-> "DEFAULT",
     device |-> SensorDevice,
     person |-> None]

create_error_response(error_message) ==
    [access_granted |-> FALSE,
     result |-> ERROR,
     error |-> error_message,
     timestamp |-> None,
     unit_code |-> unit_info.unit_code,
     device |-> SensorDevice,
     person |-> None]

(***************************************************************************)
(* BiometricQueryService.process_biometric_query: the set of outcomes of   *)
(* one call in the current state.  An outcome is                           *)
(*   raised    an exception left the call                                  *)
(*   response  the dict returned (None if raised)                          *)
(*   logs      the access log after the call                               *)
(*   did       what the call did: its arguments, whether validation        *)
(*             passed, the outcome of the storage lookup if one was made,  *)
(*             and whether the insert of the log entry was tried and       *)
(*             succeeded                                                   *)
(***************************************************************************)
Did(template_base64, finger, valid, lookup, insert) ==
    [template |-> template_base64, finger |-> finger, valid |-> valid,
     lookup |-> lookup, insert |-> insert]

\* Variant: the exception is not caught.
query_except_propagates(e, logs, did) ==
    [raised |-> TRUE, response |-> None, logs |-> logs, did |-> did]

\* except Exception as e: return self._create_error_response(...)
query_except(e, logs, did) ==
    [raised |-> FALSE,
     response |-> Some(create_error_response(<< "System error: " >> \o e)),
     logs |-> logs, did |-> did]

query_after_lookup(template_base64, finger, lookup) ==
    IF lookup.raised
    THEN { query_except(lookup.e, access_logs,
                        Did(template_base64, finger, TRUE, Some(lookup), None)) }
    ELSE LET person_info == lookup.row
             access_result == IF person_info # None THEN GRANTED ELSE DENIED
         IN  { LET logged == log_access_attempt(access_logs, person_info,
                                                access_result, insert_ok)
                   did == Did(template_base64, finger, TRUE, Some(lookup),
                              Some(insert_ok))
               IN  IF logged.raised
                   THEN query_except(<< "Error logging access attempt" >>,
                                     logged.logs, did)
                   ELSE [raised |-> FALSE,
                         response |-> Some(create_response(access_result,
                                                           person_info)),
                         logs |-> logged.logs, did |-> did]
               : insert_ok \in BOOLEAN }

process_biometric_query(template_base64, finger) ==
    LET validation_result == validate_input(template_base64, finger) IN
    IF ~validation_result.valid
    THEN { [raised |-> FALSE,
            response |-> Some(create_error_response(validation_result.error)),
            logs |-> access_logs,
            did |-> Did(template_base64, finger, FALSE, None, None)] }
    ELSE LET conv == convert_template(template_base64) IN
         IF conv.raised
         THEN { query_except(conv.e, access_logs,
                             Did(template_base64, finger, TRUE, None, None)) }
         ELSE UNION { query_after_lookup(template_base64, finger, lookup) :
                        lookup \in find_biometric_by_template(conv.data, finger) }

(***************************************************************************)
(* SensorInterface                                                         *)
(***************************************************************************)
\* A line on the wire: bytes that are valid UTF-8 and decode to text, or not.
Undecodable == [utf8 |-> FALSE, text |-> <<>>]
Wire(text) == [utf8 |-> TRUE, text |-> text]

\* Variant: the exception of a line that cannot be decoded is not caught.
read_except_propagates == [raised |-> TRUE, command |-> None]

\* except Exception as e: ... return None
read_except == [raised |-> FALSE, command |-> None]

\* _read_sensor_command: [raised, command], the command parsed or None.
read_sensor_command(wire, now) ==
    IF ~wire.utf8 THEN read_except
    ELSE LET raw_data == Strip(wire.text) IN
         IF raw_data = <<>> THEN [raised |-> FALSE, command |-> None]
         ELSE LET parts == Split(raw_data) IN
              IF Len(parts) >= 3
              THEN [raised |-> FALSE,
                    command |-> Some([type |-> parts[1], template |-> parts[2],
                                      finger |-> parts[3],
                                      timestamp |-> Some(now)])]
              ELSE [raised |-> FALSE, command |-> None]

\* _process_command, QUERY or VERIFY: the biometric service answers, and
\* the command's timestamp is added to its answer.
query_command(cmd) ==
    { IF out.raised
      THEN [response |-> [access_granted |-> FALSE,
                          result |-> ERROR,
                          error |-> << "exception" >>,
                          timestamp |-> cmd.timestamp,
                          unit_code |-> unit_info.unit_code,
                          device |-> SensorDevice,
                          person |-> None],
            logs |-> out.logs, query |-> Some(out)]
      ELSE [response |-> [out.response[1] EXCEPT !.timestamp = cmd.timestamp],
            logs |-> out.logs, query |-> Some(out)]
      : out \in process_biometric_query(cmd.template, cmd.finger) }

\* Variant: TEST is not told apart from QUERY.
test_command_as_query(cmd) == query_command(cmd)

\* _process_command, TEST.
test_command(cmd) ==
    { [response |-> [access_granted |-> TRUE,
                     result |-> "TEST_OK",
                     timestamp |-> cmd.timestamp,
                     unit_code |-> unit_info.unit_code,
                     device |-> SensorDevice,
                     person |-> None],
       logs |-> access_logs, query |-> None] }

\* Variant: a command of another type is handed to the biometric service.
unknown_command_as_query(cmd) == query_command(cmd)

\* _process_command, any other type.
unknown_command(cmd) ==
    { [response |-> [access_granted |-> FALSE,
                     result |-> "UNKNOWN_COMMAND",
                     error |-> << "Unknown command: " >> \o Upper(cmd.type),
                     timestamp |-> cmd.timestamp,
                     unit_code |-> unit_info.unit_code,
                     device |-> SensorDevice,
                     person |-> None],
       logs |-> access_logs, query |-> None] }

\* _process_command: the set of [response, logs, query] it may end with.
process_command(cmd) ==
    LET command_type == Upper(cmd.type) IN
    IF command_type = << "QUERY" >> \/ command_type = << "VERIFY" >>
    THEN query_command(cmd)
    ELSE IF command_type = << "TEST" >>
    THEN test_command(cmd)
    ELSE unknown_command(cmd)

\* str.encode('utf-8') of the symbols _send_response writes.
EncodeSym(c) ==
    CASE c = "YES" -> << 89, 69, 83 >>
      [] c = "NO" -> << 78, 79 >>
      [] c = "\\" -> << 92 >>
      [] c = "n" -> << 110 >>
      [] c = "\n" -> << 10 >>

RECURSIVE Encode(_)
Encode(s) == IF s = <<>> THEN <<>> ELSE EncodeSym(Head(s)) \o Encode(Tail(s))

\* Variant: NO is sent only for a response that carries an error.
SensorToken_yes_without_error(resp) ==
    IF "error" \in DOMAIN resp THEN "NO" ELSE "YES"

\* "YES" if response.get('access_granted', False) else "NO"
SensorToken(resp) == IF resp.access_granted THEN "YES" ELSE "NO"

\* f"{sensor_response}\\n": the token, a backslash and the letter n.
ResponseLine(token) == << token, "\\", "n" >>

\* _send_response: the bytes written, or nothing when the write raises.
send_response(resp, write_ok) ==
    LET token == SensorToken(resp) IN
    [sensor_response |-> token,
     written |-> IF write_ok THEN << Encode(ResponseLine(token)) >> ELSE <<>>]

(***************************************************************************)
(* What the sensor may send.                                               *)
(***************************************************************************)
\* "Q" is in the base64 alphabet, "=" is the padding, " " is white space.
TemplateChars == { "Q", "=", " " }

Templates == UNION { [1..n -> TemplateChars] : n \in 0..MaxTemplateLen }

\* "!" is outside the base64 alphabet and is not white space.
SampleTemplates ==
    { <<>>, << "Q", "Q", "=", "=" >>, << "!" >>, << "Q", "!", "Q", "=", "=" >>,
      << "Q", "Q", "Q", "!" >> }

Fingers == { << "index_right" >>, << "thumb_left" >>, << "invalid_finger" >> }

Frame(type, template, finger) ==
    Wire(<< type, ":" >> \o template \o << ":" >> \o finger \o << "\n" >>)

WireLines ==
    { Frame("QUERY", t, f) : t \in Templates, f \in Fingers }
    \cup { Frame(ty, t, f) : ty \in { "QUERY", "verify", "TEST", "test", "PING" },
                             t \in SampleTemplates, f \in Fingers }
    \cup { Undecodable,
           Wire(<< "\n" >>),
           Wire(<< " ", "\n" >>),
           Wire(<< "TEST", "\n" >>),
           Wire(<< "QUERY", ":", "Q", "Q", "=", "=", "\n" >>),
           Wire(<< " ", "TEST", ":", ":", "\n" >>),
           Wire(<< "QUERY", ":", "Q", "Q", "=", "=", ":", "index_right", ":",
                   "extra", "\n" >>) }

\* The line holds at least one byte besides white space.
NonEmpty(wire) == ~wire.utf8 \/ Strip(wire.text) # <<>>

(***************************************************************************)
(* Initial state: the service is constructed and the sensor connected.     *)
(***************************************************************************)
Init ==
    /\ biometrics \in EnrolledSets
    /\ unit_info \in UnitInfos
    /\ construction = Some(ConstructionOf(unit_info))
    /\ access_logs = <<>>
    /\ pc = "poll"
    /\ line = None
    /\ command = None
    /\ response = None
    /\ query = None
    /\ sensor_response = ""
    /\ written = <<>>
    /\ n_cycles = 0
    /\ n_nonempty = 0
    /\ n_queries = 0
    /\ n_lookups = 0
    /\ n_log_calls = 0
    /\ stop = None
    /\ is_open = TRUE
    /\ results = <<>>
    /\ biometric_templates = {}
    /\ gate_logs = <<>>
    /\ apc = "stopped"
    /\ sensor_data = << None, None >>
    /\ access_granted = None
    /\ compared = None
    /\ gpio = "LOW"
    /\ n_readings = 0
    /\ n_compared = 0
    /\ n_log_access = 0
    /\ run_stop = None
    /\ open_resources = {}

(***************************************************************************)
(* listen_for_commands, one iteration of its loop:                         *)
(*   poll -> (ReadCommand | PollIdle) -> ProcessCommand -> SendResponse    *)
(*        -> Sleep -> poll                                                 *)
(* The loop ends ("stopped") when an exception or an interrupt reaches     *)
(* the try statement around it.                                            *)
(***************************************************************************)
\* Variant: the port is left as it is.
disconnect_sensor_skipped(open) == open

\* disconnect_sensor: an open port is closed; is_open afterwards.
disconnect_sensor(open) == IF open THEN FALSE ELSE open

\* except KeyboardInterrupt / except Exception, then finally:
\* self.disconnect_sensor().  The function returns; its locals are dead.
ListenerEnds(cause, at) ==
    /\ pc' = "stopped"
    /\ stop' = Some([cause |-> cause, at |-> at])
    /\ is_open' = disconnect_sensor(is_open)
    /\ line' = None
    /\ command' = None
    /\ response' = None
    /\ query' = None
    /\ sensor_response' = ""

\* Variant: the next line is read as soon as it waits, also while the
\* response of the command in hand is still to be sent.
ReadCommand_before_response(wire) ==
    /\ pc \in { "poll", "send" }
    /\ LET got == read_sensor_command(wire, n_cycles + 1) IN
       /\ line' = Some(wire)
       /\ command' = got.command
       /\ pc' = IF got.command # None THEN "process" ELSE "sleep"
       /\ UNCHANGED << response, query, sensor_response, stop, is_open >>
    /\ n_nonempty' = IF NonEmpty(wire) THEN n_nonempty + 1 ELSE n_nonempty
    /\ UNCHANGED << biometrics, unit_info, construction, access_logs, written, n_cycles,
                    n_queries, n_lookups, n_log_calls >>
    /\ UNCHANGED outside_listener

\* in_waiting > 0: command = self._read_sensor_command()
ReadCommand(wire) ==
    /\ pc = "poll"
    /\ LET got == read_sensor_command(wire, n_cycles + 1) IN
       IF got.raised
       THEN ListenerEnds("exception", "read")
       ELSE /\ line' = Some(wire)
            /\ command' = got.command
            /\ pc' = IF got.command # None THEN "process" ELSE "sleep"
            /\ UNCHANGED << response, query, sensor_response, stop, is_open >>
    /\ n_nonempty' = IF NonEmpty(wire) THEN n_nonempty + 1 ELSE n_nonempty
    /\ UNCHANGED << biometrics, unit_info, construction, access_logs, written, n_cycles,
                    n_queries, n_lookups, n_log_calls >>
    /\ UNCHANGED outside_listener

\* in_waiting = 0: nothing to read in this iteration.
PollIdle ==
    /\ pc = "poll"
    /\ pc' = "sleep"
    /\ UNCHANGED << biometrics, unit_info, construction, access_logs, line, command, response,
                    query, sensor_response, written, n_cycles, n_nonempty,
                    n_queries, n_lookups, n_log_calls, stop, is_open >>
    /\ UNCHANGED outside_listener

\* self.serial_connection.in_waiting raises (the port is gone): the
\* exception reaches "except Exception" of listen_for_commands.
PortFault ==
    /\ pc = "poll"
    /\ ListenerEnds("exception", "in_waiting")
    /\ UNCHANGED << biometrics, unit_info, construction, access_logs, written, n_cycles,
                    n_nonempty, n_queries, n_lookups, n_log_calls >>
    /\ UNCHANGED outside_listener

\* response = self._process_command(command)
ProcessCommand ==
    /\ pc = "process"
    /\ \E out \in process_command(command[1]) :
          /\ response' = Some(out.response)
          /\ access_logs' = out.logs
          /\ query' = IF out.query = None THEN None
                      ELSE Some([raised |-> out.query[1].raised,
                                 response |-> out.query[1].response,
                                 did |-> out.query[1].did])
          /\ n_queries' = IF out.query = None THEN n_queries ELSE n_queries + 1
          /\ n_lookups' = IF out.query # None /\ out.query[1].did.lookup # None
                          THEN n_lookups + 1 ELSE n_lookups
          /\ n_log_calls' = IF out.query # None /\ out.query[1].did.insert # None
                            THEN n_log_calls + 1 ELSE n_log_calls
    /\ pc' = "send"
    /\ UNCHANGED << biometrics, unit_info, construction, line, command, sensor_response,
                    written, n_cycles, n_nonempty, stop, is_open >>
    /\ UNCHANGED outside_listener

\* self._send_response(response)
SendResponse ==
    /\ pc = "send"
    /\ \E write_ok \in BOOLEAN :
          LET sent == send_response(response[1], write_ok) IN
          /\ sensor_response' = sent.sensor_response
          /\ written' = written \o sent.written
    /\ pc' = "sleep"
    /\ UNCHANGED << biometrics, unit_info, construction, access_logs, line, command, response,
                    query, n_cycles, n_nonempty, n_queries, n_lookups,
                    n_log_calls, stop, is_open >>
    /\ UNCHANGED outside_listener

\* time.sleep(0.1): the iteration ends; its locals are dead.
Sleep ==
    /\ pc = "sleep"
    /\ pc' = "poll"
    /\ n_cycles' = n_cycles + 1
    /\ line' = None
    /\ command' = None
    /\ response' = None
    /\ query' = None
    /\ sensor_response' = ""
    /\ UNCHANGED << biometrics, unit_info, construction, access_logs, written, n_nonempty,
                    n_queries, n_lookups, n_log_calls, stop, is_open >>
    /\ UNCHANGED outside_listener

\* KeyboardInterrupt: raised in the main thread wherever it is, it is no
\* Exception, so no handler below listen_for_commands catches it.
Interrupt ==
    /\ pc \in { "poll", "process", "send", "sleep" }
    /\ ListenerEnds("interrupt", pc)
    /\ UNCHANGED << biometrics, unit_info, construction, access_logs, written, n_cycles,
                    n_nonempty, n_queries, n_lookups, n_log_calls >>
    /\ UNCHANGED outside_listener

Next ==
    \/ \E wire \in WireLines : n_cycles < MaxCycles /\ ReadCommand(wire)
    \/ n_cycles < MaxCycles /\ PollIdle
    \/ PortFault
    \/ ProcessCommand
    \/ SendResponse
    \/ Sleep
    \/ Interrupt

Spec == Init /\ [][Next]_vars

(***************************************************************************)
(* The listener over several iterations, the sensor sending one of a few   *)
(* lines in each: a line that cannot be decoded, lines of two fields and   *)
(* of one, an unknown command type, an invalid finger, a template that is  *)
(* not base64 ("Q"), a query of enrolled bytes and a TEST.                 *)
(***************************************************************************)
MaxListenCycles == 2

FewLines ==
    { Undecodable,
      Wire(<< "QUERY", ":", "Q", "Q", "=", "=", "\n" >>),
      Wire(<< "TEST", "\n" >>),
      Frame("PING", << "Q", "Q", "=", "=" >>, << "index_right" >>),
      Frame("QUERY", << "Q", "Q", "=", "=" >>, << "invalid_finger" >>),
      Frame("QUERY", << "Q" >>, << "index_right" >>),
      Frame("QUERY", << "Q", "Q", "=", "=" >>, << "index_right" >>),
      Frame("TEST", <<>>, <<>>) }

NextListen ==
    \/ \E wire \in FewLines : n_cycles < MaxListenCycles /\ ReadCommand(wire)
    \/ n_cycles < MaxListenCycles /\ PollIdle
    \/ PortFault
    \/ ProcessCommand
    \/ SendResponse
    \/ Sleep
    \/ Interrupt

SpecListen == Init /\ [][NextListen]_vars

(***************************************************************************)
(* A client of the service: it calls process_biometric_query of one        *)
(* service directly, one query after the other, and looks at each result   *)
(* (TestBiometricSystem in test_system.py).                                *)
(***************************************************************************)
MaxQueries == 3

\* "QQ==" decodes to b"A", "QQQ=" to b"A\x04"; "" fails validation.
QueryInputs ==
    { << <<>>, << "index_right" >> >>,
      << << "Q", "Q", "=", "=" >>, << "index_right" >> >>,
      << << "Q", "Q", "=", "=" >>, << "thumb_left" >> >>,
      << << "Q", "Q", "=", "=" >>, << "invalid_finger" >> >>,
      << << "Q", "Q", "Q", "=" >>, << "thumb_left" >> >> }

\* result = self.service.process_biometric_query(template, finger)
Query(template_base64, finger) ==
    /\ Len(results) < MaxQueries
    /\ \E out \in process_biometric_query(template_base64, finger) :
          /\ access_logs' = out.logs
          /\ results' = Append(results, [raised |-> out.raised,
                                         response |-> out.response,
                                         did |-> out.did,
                                         logs |-> out.logs])
          /\ n_queries' = n_queries + 1
          /\ n_lookups' = IF out.did.lookup # None
                          THEN n_lookups + 1 ELSE n_lookups
          /\ n_log_calls' = IF out.did.insert # None
                            THEN n_log_calls + 1 ELSE n_log_calls
    /\ UNCHANGED << biometrics, unit_info, construction, pc, line, command, response, query,
                    sensor_response, written, n_cycles, n_nonempty, stop,
                    is_open >>
    /\ UNCHANGED access_vars

NextQueries == \E q \in QueryInputs : Query(q[1], q[2])

SpecQueries == Init /\ [][NextQueries]_vars

(***************************************************************************)
(* The listener from its start: connect_sensor and listen_for_commands     *)
(* are called on a SensorInterface whose port was never opened or was      *)
(* closed when an earlier listener ended.  is_open stands for              *)
(* "self.serial_connection and self.serial_connection.is_open".            *)
(***************************************************************************)
\* connect_sensor: serial.Serial(...) gives an open port; when it raises,
\* self.serial_connection keeps what it held.
connect_sensor(open, serial_ok) == IF serial_ok THEN TRUE ELSE open

\* Variant of listen_for_commands_entry: the loop is entered whatever the
\* port is.
listen_for_commands_entry_unguarded(open) == "loop"

\* listen_for_commands, lines 88-90: without an open port it logs an error
\* and returns; otherwise it enters the loop.
listen_for_commands_entry(open) == IF ~open THEN "return" ELSE "loop"

InitStart ==
    /\ biometrics \in EnrolledSets
    /\ unit_info \in UnitInfos
    /\ construction = Some(ConstructionOf(unit_info))
    /\ access_logs = <<>>
    /\ pc = "stopped"
    /\ line = None
    /\ command = None
    /\ response = None
    /\ query = None
    /\ sensor_response = ""
    /\ written = <<>>
    /\ n_cycles = 0
    /\ n_nonempty = 0
    /\ n_queries = 0
    /\ n_lookups = 0
    /\ n_log_calls = 0
    /\ stop = None
    /\ is_open = FALSE
    /\ results = <<>>
    /\ biometric_templates = {}
    /\ gate_logs = <<>>
    /\ apc = "stopped"
    /\ sensor_data = << None, None >>
    /\ access_granted = None
    /\ compared = None
    /\ gpio = "LOW"
    /\ n_readings = 0
    /\ n_compared = 0
    /\ n_log_access = 0
    /\ run_stop = None
    /\ open_resources = {}

\* sensor.connect_sensor(), called while no listener runs.
ConnectSensor(serial_ok) ==
    /\ pc = "stopped"
    /\ is_open' = connect_sensor(is_open, serial_ok)
    /\ UNCHANGED << biometrics, unit_info, construction, access_logs, pc, line, command,
                    response, query, sensor_response, written, n_cycles,
                    n_nonempty, n_queries, n_lookups, n_log_calls, stop >>
    /\ UNCHANGED outside_listener

\* sensor.listen_for_commands(), called while no listener runs: it returns
\* at once ("not_connected") or enters the loop.
ListenForCommands ==
    /\ pc = "stopped"
    /\ IF listen_for_commands_entry(is_open) = "return"
       THEN /\ pc' = "stopped"
            /\ stop' = Some([cause |-> "not_connected", at |-> "entry"])
       ELSE /\ pc' = "poll"
            /\ stop' = None
    /\ UNCHANGED << biometrics, unit_info, construction, access_logs, line, command,
                    response, query, sensor_response, written, n_cycles,
                    n_nonempty, n_queries, n_lookups, n_log_calls, is_open >>
    /\ UNCHANGED outside_listener

NextStart ==
    \/ \E serial_ok \in BOOLEAN : ConnectSensor(serial_ok)
    \/ ListenForCommands
    \/ \E wire \in FewLines :
          n_cycles < MaxListenCycles /\ n_nonempty < MaxListenCycles /\ ReadCommand(wire)
    \/ n_cycles < MaxListenCycles /\ PollIdle
    \/ PortFault
    \/ ProcessCommand
    \/ SendResponse
    \/ Sleep
    \/ Interrupt

SpecStart == InitStart /\ [][NextStart]_vars


(***************************************************************************)
(* The construction of the service, then queries of a client: the state    *)
(* before BiometricQueryService(unit_code) is called, the call, and, when  *)
(* it returned a service, calls of process_biometric_query.                *)
(***************************************************************************)
\* The unit codes a service is asked for: a unit of the table, the default
\* argument, and a code the table does not hold.
UnitCodes == { "ETEC01", "DEFAULT", "ETEC99" }

InitConstruct ==
    /\ biometrics \in EnrolledSets
    /\ unit_info = None
    /\ construction = None
    /\ access_logs = <<>>
    /\ pc = "new"
    /\ line = None
    /\ command = None
    /\ response = None
    /\ query = None
    /\ sensor_response = ""
    /\ written = <<>>
    /\ n_cycles = 0
    /\ n_nonempty = 0
    /\ n_queries = 0
    /\ n_lookups = 0
    /\ n_log_calls = 0
    /\ stop = None
    /\ is_open = FALSE
    /\ results = <<>>
    /\ biometric_templates = {}
    /\ gate_logs = <<>>
    /\ apc = "stopped"
    /\ sensor_data = << None, None >>
    /\ access_granted = None
    /\ compared = None
    /\ gpio = "LOW"
    /\ n_readings = 0
    /\ n_compared = 0
    /\ n_log_access = 0
    /\ run_stop = None
    /\ open_resources = {}

\* BiometricQueryService(unit_code): __init__ sets unit_info to None and
\* calls _initialize_unit; when that raises no service comes to exist.
Construct(unit_code) ==
    /\ pc = "new"
    /\ \E got \in get_unit_by_code(unit_code) :
          LET done == initialize_unit(unit_code, got) IN
          /\ construction' = Some([unit_code |-> unit_code, got |-> got])
          /\ IF done.raised
             THEN pc' = "failed" /\ unit_info' = None
             ELSE pc' = "ready" /\ unit_info' = done.unit_info[1]
    /\ UNCHANGED << biometrics, access_logs, line, command, response, query,
                    sensor_response, written, n_cycles, n_nonempty, n_queries,
                    n_lookups, n_log_calls, stop, is_open, results >>
    /\ UNCHANGED access_vars

NextConstruct ==
    \/ \E unit_code \in UnitCodes : Construct(unit_code)
    \/ \E q \in QueryInputs : pc = "ready" /\ Query(q[1], q[2])

SpecConstruct == InitConstruct /\ [][NextConstruct]_vars

(***************************************************************************)
(* The gate access system (deep/).  BiometricAccessSystem.run reads a      *)
(* claimed user_id and a template from the sensor, compares the template   *)
(* with the one stored for that user (similarity of numeric vectors),      *)
(* opens the gate when they match and logs the attempt.                    *)
(*                                                                         *)
(* A template is text: numbers separated by ",".  A number is one symbol   *)
(* ("0", "1", "2", "-1"); "x" is a symbol that is no number.  A score is   *)
(* kept exact, as the dot product and the squares of the two norms:        *)
(* similarity = dot / sqrt(na * nb).                                       *)
(***************************************************************************)
MaxDim == 2
MaxReadings == 1

\* self.threshold = 0.85, in hundredths.
threshold == 85

\* Config.ENCRYPTION_KEY
ENCRYPTION_KEY == "default-encryption-key-123"

\* A Fernet token, symbolically: the ciphertext is one block per symbol of
\* the text, each sealed under the key (it is not the text); the HMAC
\* covers the ciphertext and only the holder of the key can compute it.
\* The token's version, timestamp and IV are under the HMAC too and play no
\* part in decryption (no ttl is given); they are left out.
Cipher(key, template_data) ==
    [i \in 1..Len(template_data) |-> [k |-> key, p |-> template_data[i]]]

Mac(key, ciphertext) == [k |-> key, over |-> ciphertext]

Token(key, template_data) ==
    [ciphertext |-> Cipher(key, template_data),
     hmac |-> Mac(key, Cipher(key, template_data))]

\* Fernet(self.key).encrypt(template_data.encode())
encrypt_template(template_data) == Token(ENCRYPTION_KEY, template_data)

\* Variant: the blocks are opened without verifying the HMAC.
decrypt_template_unauthenticated(encrypted_data) ==
    [raised |-> FALSE,
     text |-> [i \in 1..Len(encrypted_data.ciphertext) |->
                  encrypted_data.ciphertext[i].p]]

\* Fernet(self.key).decrypt(encrypted_data).decode(): InvalidToken unless
\* the HMAC is the one of this key over this ciphertext.
decrypt_template(encrypted_data) ==
    IF encrypted_data.hmac # Mac(ENCRYPTION_KEY, encrypted_data.ciphertext)
    THEN [raised |-> TRUE, text |-> <<>>]
    ELSE [raised |-> FALSE,
          text |-> [i \in 1..Len(encrypted_data.ciphertext) |->
                       encrypted_data.ciphertext[i].p]]

\* template_str.split(',')
RECURSIVE SplitCommaFrom(_, _, _)
SplitCommaFrom(s, i, field) ==
    IF i > Len(s) THEN << field >>
    ELSE IF s[i] = "," THEN << field >> \o SplitCommaFrom(s, i + 1, <<>>)
    ELSE SplitCommaFrom(s, i + 1, Append(field, s[i]))

SplitComma(s) == SplitCommaFrom(s, 1, <<>>)

\* float(x): an empty field and a field that is no number raise ValueError.
FloatOf(x) ==
    IF Len(x) # 1 THEN [ok |-> FALSE, value |-> 0]
    ELSE CASE x[1] = "0" -> [ok |-> TRUE, value |-> 0]
           [] x[1] = "1" -> [ok |-> TRUE, value |-> 1]
           [] x[1] = "2" -> [ok |-> TRUE, value |-> 2]
           [] x[1] = "-1" -> [ok |-> TRUE, value |-> 0 - 1]
           [] OTHER -> [ok |-> FALSE, value |-> 0]

\* BiometricMatcher._deserialize_template
deserialize_template(template_str) ==
    LET fields == SplitComma(template_str) IN
    IF \A i \in 1..Len(fields) : FloatOf(fields[i]).ok
    THEN [raised |-> FALSE,
          vec |-> [i \in 1..Len(fields) |-> FloatOf(fields[i]).value]]
    ELSE [raised |-> TRUE, vec |-> <<>>]

RECURSIVE Dot(_, _)
Dot(a, b) ==
    IF a = <<>> THEN 0 ELSE Head(a) * Head(b) + Dot(Tail(a), Tail(b))

\* Variant: the dot product alone, the vectors not normalised.
cosine_similarity_unnormalised(a, b) ==
    IF Len(a) # Len(b)
    THEN [raised |-> TRUE, dot |-> 0, na |-> 1, nb |-> 1]
    ELSE [raised |-> FALSE, dot |-> Dot(a, b), na |-> 1, nb |-> 1]

\* sklearn's cosine_similarity([a], [b])[0][0]: the rows are normalised (a
\* norm of zero counts as 1, so a zero vector stays zero) and multiplied;
\* rows of different lengths raise ValueError.
cosine_similarity(a, b) ==
    IF Len(a) # Len(b)
    THEN [raised |-> TRUE, dot |-> 0, na |-> 1, nb |-> 1]
    ELSE [raised |-> FALSE,
          dot |-> Dot(a, b),
          na |-> IF Dot(a, a) = 0 THEN 1 ELSE Dot(a, a),
          nb |-> IF Dot(b, b) = 0 THEN 1 ELSE Dot(b, b)]

\* similarity >= t, t in hundredths: dot * 100 >= t * sqrt(na * nb).
AtLeast(s, t) ==
    IF s.dot >= 0
    THEN t <= 0 \/ s.dot * s.dot * 10000 >= t * t * s.na * s.nb
    ELSE t < 0 /\ s.dot * s.dot * 10000 <= t * t * s.na * s.nb

(***************************************************************************)
(* DatabaseConnector.get_biometric_template: the outcomes of one call.     *)
(* The query may fail (caught: None); otherwise fetchone gives one of the  *)
(* active rows of the user (no ORDER BY: any of them), or None.            *)
(***************************************************************************)
\* Variant: rows that are not active are candidates too.
ActiveRows_including_inactive(user_id) ==
    { r \in biometric_templates : r.user_id = user_id }

ActiveRows(user_id) ==
    { r \in biometric_templates : r.user_id = user_id /\ r.is_active }

get_biometric_template(user_id) ==
    { [fault |-> TRUE, encrypted_template |-> None] }
    \cup
    ( IF ActiveRows(user_id) = {}
      THEN { [fault |-> FALSE, encrypted_template |-> None] }
      ELSE { [fault |-> FALSE, encrypted_template |-> Some(r.encrypted_template)] :
                 r \in ActiveRows(user_id) } )

(***************************************************************************)
(* BiometricMatcher.compare_templates: [result, got, score], the boolean   *)
(* returned, what the storage gave and the similarity if one was computed. *)
(***************************************************************************)
\* Variant: an exception during the comparison grants access.
compare_except_grants(got) == [result |-> TRUE, got |-> got, score |-> None]

\* except Exception as e: ... return False
compare_except(got) == [result |-> FALSE, got |-> got, score |-> None]

compare_with(sensor_template, got) ==
    IF got.encrypted_template = None
    THEN [result |-> FALSE, got |-> got, score |-> None]
    ELSE LET dec == decrypt_template(got.encrypted_template[1]) IN
         IF dec.raised THEN compare_except(got)
         ELSE LET stored_template == deserialize_template(dec.text) IN
              IF stored_template.raised THEN compare_except(got)
              ELSE LET sensor_template_vec == deserialize_template(sensor_template) IN
                   IF sensor_template_vec.raised THEN compare_except(got)
                   ELSE LET similarity == cosine_similarity(stored_template.vec,
                                                            sensor_template_vec.vec)
                        IN  IF similarity.raised THEN compare_except(got)
                            ELSE [result |-> AtLeast(similarity, threshold),
                                  got |-> got,
                                  score |-> Some([dot |-> similarity.dot,
                                                  na |-> similarity.na,
                                                  nb |-> similarity.nb])]

compare_templates(sensor_template, user_id) ==
    { compare_with(sensor_template, got) : got \in get_biometric_template(user_id) }

(***************************************************************************)
(* BiometricSensor.read_biometric_data: << user_id, template >>.  What is  *)
(* waiting on the port is nothing, a line that is no JSON, JSON that is no *)
(* object, or an object that may lack either key.                          *)
(***************************************************************************)
read_biometric_data(msg) ==
    IF ~msg.waiting THEN << None, None >>
    ELSE IF ~msg.json THEN << None, None >>
    ELSE IF ~msg.object THEN << None, None >>
    ELSE << msg.user_id, msg.template >>

\* Variant of Truthy: only None is false, as "is not None" would be.
Truthy_is_not_none(v) == v # None

\* "if user_id and template": neither None nor the empty string.
Truthy(v) == v # None /\ v[1] # <<>>

(***************************************************************************)
(* What the gate's storage may hold and what its sensor may send.          *)
(***************************************************************************)
Numbers == { "0", "1", "2", "-1" }

RECURSIVE Join(_)
Join(tokens) ==
    IF Len(tokens) <= 1 THEN tokens
    ELSE << Head(tokens), "," >> \o Join(Tail(tokens))

VectorTexts == UNION { { Join(v) : v \in [1..n -> Numbers] } : n \in 1..MaxDim }

TemplateTexts == VectorTexts \cup { <<>>, << "x" >>, << "1", "," >> }

UserIds == { << "u1" >>, << "u2" >>, << "u9" >> }

TemplateRow(id, user_id, encrypted_template, is_active) ==
    [id |-> id, user_id |-> user_id, encrypted_template |-> encrypted_template,
     is_active |-> is_active]

\* The symbols templates are made of.
TemplateSymbols == Numbers \cup { ",", "x" }

\* What a stored token may have become in the hands of someone who does not
\* hold the key: a block altered, the ciphertext cut short, or the HMAC
\* computed anew under a key of their own.
Tamperings(token) ==
    ( { [token EXCEPT !.ciphertext[i].p = c] :
            i \in 1..Len(token.ciphertext), c \in TemplateSymbols }
      \cup { [token EXCEPT !.ciphertext = SubSeq(token.ciphertext, 1, n)] :
                 n \in 0..(Len(token.ciphertext) - 1) }
      \cup { [token EXCEPT !.hmac = Mac("another-key", token.ciphertext)] } )
    \ { token }

TemplateTables ==
    { { TemplateRow(1, << "u1" >>, encrypt_template(<< "1", ",", "2" >>), TRUE),
        TemplateRow(2, << "u2" >>, encrypt_template(<< "0", ",", "0" >>), TRUE) },
      { TemplateRow(1, << "u1" >>, encrypt_template(<< "2", ",", "1" >>), TRUE),
        TemplateRow(2, << "u1" >>, encrypt_template(<< "1", ",", "2" >>), TRUE),
        TemplateRow(3, << "u2" >>, encrypt_template(<< "1" >>), FALSE) },
      { TemplateRow(1, << "u1" >>, Token("another-key", << "1", ",", "2" >>), TRUE),
        TemplateRow(2, << "u2" >>, encrypt_template(<< "x" >>), TRUE) } }
    \cup
    { { TemplateRow(1, << "u1" >>, t, TRUE) :
            t \in Tamperings(encrypt_template(<< "1", ",", "2" >>)) }
      \cup { TemplateRow(2, << "u2" >>, encrypt_template(<< "2" >>), TRUE) } }

SensorMessages ==
    { [waiting |-> FALSE, json |-> FALSE, object |-> FALSE,
       user_id |-> None, template |-> None],
      [waiting |-> TRUE, json |-> FALSE, object |-> FALSE,
       user_id |-> None, template |-> None],
      [waiting |-> TRUE, json |-> TRUE, object |-> FALSE,
       user_id |-> None, template |-> None] }
    \cup
    { [waiting |-> TRUE, json |-> TRUE, object |-> TRUE,
       user_id |-> u, template |-> t] :
          u \in { None } \cup { Some(x) : x \in UserIds \cup { <<>> } },
          t \in { None } \cup { Some(x) : x \in TemplateTexts } }

(***************************************************************************)
(* BiometricAccessSystem.__init__ and shutdown.  __init__ opens the        *)
(* sensor's serial port, sets the GPIO up, and connects to the database    *)
(* twice: BiometricMatcher() makes a DatabaseConnector of its own and so   *)
(* does the system.  shutdown is three calls in a row with no try around   *)
(* any: a call that raises leaves its resource and those of the calls      *)
(* after it unreleased (fails_at is the step that raises, one past the     *)
(* last when none does).                                                   *)
(***************************************************************************)
Resources == { "sensor", "gpio", "matcher.db", "db" }

\* self.sensor.close(); self.gate.cleanup(); self.db.close()
ReleaseSteps == << "sensor", "gpio", "db" >>

shutdown(open, fails_at) ==
    open \ { ReleaseSteps[i] : i \in 1..(fails_at - 1) }

(***************************************************************************)
(* Initial state of the gate access system and of the rest when only the   *)
(* gate access system runs.                                                *)
(***************************************************************************)
InitAccess ==
    /\ biometric_templates \in TemplateTables
    /\ gate_logs = <<>>
    /\ apc = "read"
    /\ sensor_data = << None, None >>
    /\ access_granted = None
    /\ compared = None
    /\ gpio = "LOW"
    /\ n_readings = 0
    /\ n_compared = 0
    /\ n_log_access = 0
    /\ run_stop = None
    /\ open_resources = Resources
    /\ biometrics = {}
    /\ unit_info = [id |-> 1, name |-> "Default Unit", unit_code |-> "DEFAULT"]
    /\ construction = None
    /\ access_logs = <<>>
    /\ pc = "stopped"
    /\ line = None
    /\ command = None
    /\ response = None
    /\ query = None
    /\ sensor_response = ""
    /\ written = <<>>
    /\ n_cycles = 0
    /\ n_nonempty = 0
    /\ n_queries = 0
    /\ n_lookups = 0
    /\ n_log_calls = 0
    /\ stop = None
    /\ is_open = FALSE
    /\ results = <<>>

(***************************************************************************)
(* BiometricAccessSystem.run, one iteration of its loop:                   *)
(*   read -> compare -> (open -> wait ->) log -> sleep -> read             *)
(***************************************************************************)
\* except KeyboardInterrupt / an exception nothing catches, then finally:
\* self.shutdown(); GPIO.cleanup() makes the pin an input again.
RunEnds(cause, at) ==
    /\ apc' = "stopped"
    /\ run_stop' = Some([cause |-> cause, at |-> at])
    /\ \E fails_at \in 1..(Len(ReleaseSteps) + 1) :
          /\ open_resources' = shutdown(open_resources, fails_at)
          /\ gpio' = IF "gpio" \in open_resources \ open_resources'
                     THEN "INPUT" ELSE gpio
    /\ sensor_data' = << None, None >>
    /\ access_granted' = None
    /\ compared' = None

\* user_id, template = self.sensor.read_biometric_data()
ReadBiometricData(msg) ==
    /\ apc = "read"
    /\ sensor_data' = read_biometric_data(msg)
    /\ apc' = IF Truthy(sensor_data'[1]) /\ Truthy(sensor_data'[2])
              THEN "compare" ELSE "sleep"
    /\ UNCHANGED << biometric_templates, gate_logs, access_granted, compared,
                    gpio, n_readings, n_compared, n_log_access, run_stop,
                    open_resources >>
    /\ UNCHANGED listener_vars

\* access_granted = self.matcher.compare_templates(template, user_id)
CompareTemplates ==
    /\ apc = "compare"
    /\ \E out \in compare_templates(sensor_data[2][1], sensor_data[1][1]) :
          /\ access_granted' = Some(out.result)
          /\ compared' = Some(out)
          /\ apc' = IF out.result THEN "open" ELSE "log"
    /\ n_compared' = n_compared + 1
    /\ UNCHANGED << biometric_templates, gate_logs, sensor_data, gpio,
                    n_readings, n_log_access, run_stop,
                    open_resources >>
    /\ UNCHANGED listener_vars

\* self.gate.open_gate(): GPIO.output(self.gpio_pin, GPIO.HIGH); when it
\* raises, open_gate prints and returns.
OpenGate ==
    /\ apc = "open"
    /\ \E output_ok \in BOOLEAN :
          IF output_ok
          THEN gpio' = "HIGH" /\ apc' = "wait"
          ELSE gpio' = gpio /\ apc' = "log"
    /\ UNCHANGED << biometric_templates, gate_logs, sensor_data, access_granted,
                    compared, n_readings, n_compared, n_log_access, run_stop,
                    open_resources >>
    /\ UNCHANGED listener_vars

\* time.sleep(Config.GATE_OPEN_TIME); self.close_gate(): when
\* GPIO.output(self.gpio_pin, GPIO.LOW) raises, close_gate prints and returns.
CloseGate ==
    /\ apc = "wait"
    /\ \E output_ok \in BOOLEAN :
          gpio' = IF output_ok THEN "LOW" ELSE gpio
    /\ apc' = "log"
    /\ UNCHANGED << biometric_templates, gate_logs, sensor_data, access_granted,
                    compared, n_readings, n_compared, n_log_access, run_stop,
                    open_resources >>
    /\ UNCHANGED listener_vars

\* self.db.log_access(user_id, access_granted): the row is inserted, or the
\* insert fails and is rolled back, or the rollback raises too and the
\* exception leaves run.
LogAccess ==
    /\ apc = "log"
    /\ n_log_access' = n_log_access + 1
    /\ \E outcome \in { "inserted", "rolled_back", "rollback_raises" } :
          CASE outcome = "inserted" ->
                 /\ gate_logs' = Append(gate_logs,
                                        [user_id |-> sensor_data[1][1],
                                         access_granted |-> access_granted[1]])
                 /\ apc' = "sleep"
                 /\ UNCHANGED << sensor_data, access_granted, compared, gpio,
                                 run_stop,
                    open_resources >>
            [] outcome = "rolled_back" ->
                 /\ apc' = "sleep"
                 /\ UNCHANGED << gate_logs, sensor_data, access_granted,
                                 compared, gpio, run_stop,
                    open_resources >>
            [] OTHER ->
                 /\ RunEnds("exception", "log")
                 /\ UNCHANGED gate_logs
    /\ UNCHANGED << biometric_templates, n_readings, n_compared >>
    /\ UNCHANGED listener_vars

\* time.sleep(0.1): the iteration ends; its locals are dead.
RunSleep ==
    /\ apc = "sleep"
    /\ apc' = "read"
    /\ n_readings' = n_readings + 1
    /\ sensor_data' = << None, None >>
    /\ access_granted' = None
    /\ compared' = None
    /\ UNCHANGED << biometric_templates, gate_logs, gpio, n_compared,
                    n_log_access, run_stop,
                    open_resources >>
    /\ UNCHANGED listener_vars

\* KeyboardInterrupt, wherever run is.
RunInterrupt ==
    /\ apc \in { "read", "compare", "open", "wait", "log", "sleep" }
    /\ RunEnds("interrupt", apc)
    /\ UNCHANGED << biometric_templates, gate_logs, n_readings, n_compared,
                    n_log_access >>
    /\ UNCHANGED listener_vars

NextAccess ==
    \/ \E msg \in SensorMessages : n_readings < MaxReadings /\ ReadBiometricData(msg)
    \/ CompareTemplates
    \/ OpenGate
    \/ CloseGate
    \/ LogAccess
    \/ RunSleep
    \/ RunInterrupt

SpecAccess == InitAccess /\ [][NextAccess]_vars

(***************************************************************************)
(* Properties.                                                             *)
(***************************************************************************)
\* The 10 finger tokens: 5 fingers x 2 hands.
TenFingers ==
    { "thumb_right", "index_right", "middle_right", "ring_right", "pinky_right",
      "thumb_left", "index_left", "middle_left", "ring_left", "pinky_left" }

\* Empty, or white space only.
Blank(t) == \A i \in 1..Len(t) : t[i] \in { " ", "\n" }

StartsWith(bytes, prefix) ==
    Len(bytes) >= Len(prefix) /\ SubSeq(bytes, 1, Len(prefix)) = prefix

\* The enrolled rows with exactly these bytes under exactly this finger.
SameBytesSameFinger(data, finger) ==
    { b \in biometrics : b.template = data /\ b.finger = finger }

\* The person block a response carries for an enrolled row.
PersonOf(row) ==
    [id |-> row.person_id, name |-> row.full_name, cpf |-> row.cpf,
     type |-> row.person_type, finger_used |-> row.finger]

\* C1 (as claimed): every call of process_biometric_query appends exactly one
\* access-log entry, whatever its outcome, and a validation failure is logged
\* with person_id = null.
C1_OneLogEntryPerQuery ==
    /\ Len(access_logs) = n_queries
    /\ (query # None /\ ~query[1].did.valid) =>
          /\ access_logs # <<>>
          /\ access_logs[Len(access_logs)].person_id = None

\* C2: process_biometric_query never propagates an exception; a fault raised
\* by the storage lookup (or by the template conversion) is returned as a
\* response with result ERROR, access_granted false, no person and a
\* non-empty error message.
C2_FaultsBecomeErrorResponses ==
    query # None =>
        /\ ~query[1].raised
        /\ query[1].response # None
        /\ LET did == query[1].did
               r == query[1].response[1]
           IN  (did.valid /\ (did.lookup = None \/ did.lookup[1].raised)) =>
                   /\ r.result = "ERROR"
                   /\ r.access_granted = FALSE
                   /\ r.person = None
                   /\ "error" \in DOMAIN r
                   /\ r.error # <<>>

C2_Witness ==
    /\ pc = "send"
    /\ query # None
    /\ query[1].did.lookup # None
    /\ query[1].did.lookup[1].raised
    /\ response[1].result = "ERROR"

\* C3: when the insert of the audit entry fails, process_biometric_query still
\* returns the response of the decision: GRANTED with the person the lookup
\* found, or DENIED, with no error field.
C3_LogFailureKeepsDecision ==
    (query # None /\ query[1].did.insert = Some(FALSE)) =>
        /\ ~query[1].raised
        /\ LET row == query[1].did.lookup[1].row
               r == query[1].response[1]
           IN  /\ r.result = IF row # None THEN "GRANTED" ELSE "DENIED"
               /\ r.access_granted = (row # None)
               /\ r.person = IF row # None THEN Some(PersonOf(row[1])) ELSE None
               /\ "error" \notin DOMAIN r

C3_Witness ==
    /\ pc = "send"
    /\ query # None
    /\ query[1].did.insert = Some(FALSE)
    /\ query[1].did.lookup[1].row # None
    /\ response[1].result = "GRANTED"
    /\ access_logs = <<>>

\* C4: exact strategy.  A query is GRANTED only for a valid finger and a
\* decodable template of which an enrolled row has the same bytes under the
\* same finger, and then with the person of such a row.  When the storage
\* lookup returns, the query is GRANTED if such a row exists, and otherwise
\* (no such row, also when the same bytes are enrolled under another finger)
\* it is DENIED with no person and no error field.
C4_ExactMatch ==
    query # None =>
        LET did == query[1].did
            r == query[1].response[1]
            same == SameBytesSameFinger(B64Decode(did.template).data, did.finger)
        IN  /\ (r.result = "GRANTED") =>
                   /\ did.valid
                   /\ did.finger \in { << f >> : f \in TenFingers }
                   /\ B64Decode(did.template).ok
                   /\ \E b \in same : r.person = Some(PersonOf(b))
            /\ (did.valid /\ did.lookup # None /\ ~did.lookup[1].raised) =>
                   /\ same # {} => r.result = "GRANTED"
                   /\ same = {} => /\ r.result = "DENIED"
                                   /\ r.person = None
                                   /\ "error" \notin DOMAIN r

\* The same bytes are enrolled, but under another finger: DENIED.
C4_Witness ==
    /\ pc = "send"
    /\ query # None
    /\ query[1].did.valid
    /\ query[1].did.lookup # None
    /\ ~query[1].did.lookup[1].raised
    /\ \E b \in biometrics :
          /\ b.template = B64Decode(query[1].did.template).data
          /\ b.finger # query[1].did.finger
    /\ SameBytesSameFinger(B64Decode(query[1].did.template).data,
                           query[1].did.finger) = {}
    /\ response[1].result = "DENIED"

\* C5: in every response of process_biometric_query, access_granted is true
\* iff result is GRANTED iff person is set, and GRANTED is returned only when
\* the storage lookup returned a row.
C5_GrantedIffPerson ==
    query # None =>
        LET did == query[1].did
            r == query[1].response[1]
        IN  /\ r.access_granted <=> (r.result = "GRANTED")
            /\ (r.result = "GRANTED") <=> (r.person # None)
            /\ (r.result = "GRANTED") =>
                   /\ did.lookup # None
                   /\ ~did.lookup[1].raised
                   /\ did.lookup[1].row # None

C5_Witness ==
    /\ pc = "send"
    /\ query # None
    /\ query[1].response[1].result = "GRANTED"
    /\ query[1].response[1].access_granted
    /\ query[1].response[1].person # None

\* C6 (as claimed): for every non-empty line the listener has read, exactly
\* one response was written to the sensor, and it is YES or NO.
C6_EveryLineAnswered ==
    /\ pc \in { "sleep", "poll" } => Len(written) = n_nonempty
    /\ \A i \in 1..Len(written) :
          \/ StartsWith(written[i], << 89, 69, 83 >>)
          \/ StartsWith(written[i], << 78, 79 >>)

\* C7 (as claimed): what is written for a response is exactly YES (when
\* access_granted) or NO, followed by one newline character.
C7_TokenThenNewline ==
    /\ \A i \in 1..Len(written) :
          written[i] \in { << 89, 69, 83, 10 >>, << 78, 79, 10 >> }
    /\ (pc = "sleep" /\ response # None) =>
          sensor_response = IF response[1].access_granted THEN "YES" ELSE "NO"

\* The command in hand is a TEST command.
IsTest == command # None /\ command[1].type \in { << "TEST" >>, << "test" >> }

\* C8: processing a TEST command, whatever its template and finger, yields
\* access_granted = true without a call of the biometric service, of the
\* storage lookup or of the audit log, and the token sent for it is YES.
C8_TestAnsweredWithoutService ==
    /\ [][(pc = "process" /\ IsTest /\ pc' = "send") =>
             /\ response'[1].access_granted = TRUE
             /\ response'[1].result = "TEST_OK"
             /\ query' = None
             /\ UNCHANGED << access_logs, n_queries, n_lookups, n_log_calls >>]_vars
    /\ [][(pc = "send" /\ IsTest /\ pc' = "sleep") =>
             /\ sensor_response' = "YES"
             /\ UNCHANGED << access_logs, n_queries, n_lookups, n_log_calls >>
             /\ written' # written =>
                   /\ Len(written') = Len(written) + 1
                   /\ StartsWith(written'[Len(written')], << 89, 69, 83 >>)]_vars

C8_Witness ==
    /\ pc = "sleep"
    /\ IsTest
    /\ command[1].template # <<>>
    /\ command[1].finger = << "invalid_finger" >>
    /\ response[1].access_granted
    /\ sensor_response = "YES"
    /\ written # <<>>
    /\ n_queries = 0

\* C9 (as claimed): in every response produced for a sensor command (QUERY,
\* VERIFY, TEST or any other type), an error field is present iff the result
\* is ERROR.
C9_ErrorFieldIffError ==
    response # None =>
        ("error" \in DOMAIN response[1]) <=> (response[1].result = "ERROR")

\* C9 (amended): an error field is present iff the result is ERROR or
\* UNKNOWN_COMMAND; a QUERY, VERIFY or TEST command never gets
\* UNKNOWN_COMMAND and any other type always does.
C9_ErrorFieldIffErrorOrUnknown ==
    response # None =>
        LET r == response[1]
            known == command[1].type \in
                        { << "QUERY" >>, << "VERIFY" >>, << "TEST" >>,
                          << "query" >>, << "verify" >>, << "test" >> }
        IN  /\ ("error" \in DOMAIN r) <=>
                   (r.result \in { "ERROR", "UNKNOWN_COMMAND" })
            /\ known <=> (r.result # "UNKNOWN_COMMAND")

C9_Witness ==
    /\ pc = "send"
    /\ response # None
    /\ response[1].result = "UNKNOWN_COMMAND"
    /\ "error" \in DOMAIN response[1]
    /\ command[1].type = << "PING" >>

\* C10: an empty or blank template, a finger outside the 10 tokens and an
\* undecodable template each fail validation; a validation failure is
\* answered with ERROR without a storage lookup (and without a log write);
\* the message for a blank template says the template is required and the
\* message for an invalid finger holds all 10 valid tokens.
C10_ValidationShortCircuits ==
    query # None =>
        LET did == query[1].did
            r == query[1].response[1]
            bad_finger == did.finger \notin { << f >> : f \in TenFingers }
        IN  /\ (Blank(did.template) \/ bad_finger \/ ~B64Decode(did.template).ok)
                   => ~did.valid
            /\ ~did.valid =>
                   /\ r.result = "ERROR"
                   /\ r.access_granted = FALSE
                   /\ did.lookup = None
                   /\ did.insert = None
            /\ Blank(did.template) => r.error = << "Template data is required" >>
            /\ (~Blank(did.template) /\ bad_finger) =>
                   /\ Cardinality(TenFingers) = 10
                   /\ \A f \in TenFingers : \E i \in 1..Len(r.error) : r.error[i] = f

C10_Witness ==
    /\ pc = "send"
    /\ query # None
    /\ ~query[1].did.valid
    /\ ~Blank(query[1].did.template)
    /\ query[1].did.finger = << "invalid_finger" >>
    /\ response[1].result = "ERROR"
    /\ n_lookups = 0

\* Well-formed base64 (RFC 4648): a whole number of quads, every character in
\* the alphabet, at most two "=" and only at the very end.
WellFormedBase64(t) ==
    /\ Len(t) % 4 = 0
    /\ \A i \in 1..Len(t) :
          \/ B64Index(t[i]) < 64
          \/ /\ t[i] = "="
             /\ i >= Len(t) - 1
             /\ i = Len(t) - 1 => t[Len(t)] = "="

\* C11 (as claimed): a query whose finger is valid and whose template is not
\* well-formed base64 (wrong padding, or a character outside the alphabet)
\* is answered with ERROR, access_granted false and a non-empty error
\* message, and no exception leaves the call.
C11_MalformedBase64IsError ==
    (/\ query # None
     /\ query[1].did.finger \in { << f >> : f \in TenFingers }
     /\ ~WellFormedBase64(query[1].did.template)) =>
        /\ ~query[1].raised
        /\ query[1].response[1].result = "ERROR"
        /\ query[1].response[1].access_granted = FALSE
        /\ "error" \in DOMAIN query[1].response[1]
        /\ query[1].response[1].error # <<>>

\* The storage did not fail during the client's i-th query.
NoFault(i) ==
    /\ results[i].did.lookup # None => ~results[i].did.lookup[1].raised
    /\ results[i].did.insert # Some(FALSE)

\* The access-log entries the client's i-th query appended.
Appended(i) ==
    LET before == IF i = 1 THEN <<>> ELSE results[i - 1].logs
    IN  SubSeq(results[i].logs, Len(before) + 1, Len(results[i].logs))

\* The i-th and the j-th query are the same query, the storage failed in
\* neither, and at most one enrolled row has its bytes and finger.
SameQueryTwice(i, j) ==
    /\ i < j
    /\ results[i].did.template = results[j].did.template
    /\ results[i].did.finger = results[j].did.finger
    /\ NoFault(i)
    /\ NoFault(j)
    /\ Cardinality(SameBytesSameFinger(B64Decode(results[i].did.template).data,
                                       results[i].did.finger)) <= 1

\* The decision half of C12: the same query gets the same response (result,
\* access_granted, person, error) both times, whatever was asked in between.
SameDecisionBothTimes ==
    \A i, j \in 1..Len(results) :
        SameQueryTwice(i, j) =>
            /\ results[i].raised = results[j].raised
            /\ results[i].response = results[j].response

\* C12 (as claimed): the same (template, finger) submitted twice to the same
\* service, anywhere in a sequence of queries and with the enrolled data
\* unchanged, gets the same decision and person both times, and each of the
\* two submissions appends one audit entry of its own.
C12_SameQueryTwice ==
    \A i, j \in 1..Len(results) :
        SameQueryTwice(i, j) =>
            /\ results[i].raised = results[j].raised
            /\ results[i].response = results[j].response
            /\ Len(Appended(i)) = 1
            /\ Len(Appended(j)) = 1
            /\ Appended(i)[1].id # Appended(j)[1].id

\* The responses _process_command may give to a command, the timestamp
\* aside.
AnswersTo(cmd) == { o.response : o \in process_command(cmd) }

\* C13: no received line ends the listener loop.  The loop ends only by an
\* interrupt or by a fault of the port itself (in_waiting), never inside
\* the reading, the processing or the answering of a line; and in every
\* iteration, also one that follows a malformed line, the command in hand
\* is the one parsed from the line just read and its response is one that
\* _process_command gives to that command alone.
C13_ListenerSurvivesBadLines ==
    /\ (stop # None /\ stop[1].cause = "exception") => stop[1].at = "in_waiting"
    /\ pc = "stopped" <=> stop # None
    /\ pc = "poll" => (line = None /\ command = None /\ response = None)
    /\ pc \in { "process", "send" } =>
          /\ line # None
          /\ command = read_sensor_command(line[1], n_cycles + 1).command
          /\ command # None
    /\ pc = "send" => response[1] \in AnswersTo(command[1])

\* After an iteration that read an unknown command and answered NO (or a
\* query that failed validation), with no lookup made so far, the next
\* iteration grants a query of enrolled bytes.
C13_Witness ==
    /\ n_cycles = 1
    /\ n_nonempty = 2
    /\ n_lookups = 1
    /\ \/ n_queries = 1 /\ written = << << 78, 79, 92, 110 >> >>
       \/ n_queries = 2
    /\ pc = "send"
    /\ stop = None
    /\ response[1].result = "GRANTED"

\* C14 (as claimed): the listener shuts down on an interrupt only between
\* iterations; an interrupt never ends it while a command that was read is
\* being processed or answered.
C14_InterruptOnlyBetweenIterations ==
    (stop # None /\ stop[1].cause = "interrupt") =>
        stop[1].at \in { "poll", "sleep" }

\* C15 (as claimed): for a line of text, _read_sensor_command returns None
\* only if the line is empty (and for every empty line); after a non-empty
\* line of fewer than 3 fields the caller holds something other than "no
\* command".
C15_NoneOnlyForEmptyLine ==
    (/\ line # None
     /\ line[1].utf8
     /\ pc \in { "process", "sleep" }
     /\ response = None) =>
        (command = None <=> ~NonEmpty(line[1]))

\* The command in hand has a type that is none of QUERY, VERIFY, TEST.
IsUnknownType ==
    /\ command # None
    /\ Upper(command[1].type) \notin { << "QUERY" >>, << "VERIFY" >>, << "TEST" >> }

\* C16: a line of at least 3 fields is parsed into a command whatever its
\* type; a command whose type is none of QUERY, VERIFY, TEST is answered
\* with result UNKNOWN_COMMAND and access_granted false, without a call of
\* the biometric service, of the storage lookup or of the audit log, and
\* the token sent for it is NO.
C16_UnknownCommandAnsweredNo ==
    /\ [][(/\ pc = "poll"
            /\ line' # None
            /\ line'[1].utf8
            /\ Len(Split(Strip(line'[1].text))) >= 3) =>
             /\ command' # None
             /\ command'[1].type = Split(Strip(line'[1].text))[1]
             /\ pc' = "process"]_vars
    /\ [][(pc = "process" /\ IsUnknownType /\ pc' = "send") =>
             /\ response'[1].result = "UNKNOWN_COMMAND"
             /\ response'[1].access_granted = FALSE
             /\ query' = None
             /\ UNCHANGED << access_logs, n_queries, n_lookups, n_log_calls >>]_vars
    /\ [][(pc = "send" /\ IsUnknownType /\ pc' = "sleep") =>
             /\ sensor_response' = "NO"
             /\ UNCHANGED << access_logs, n_queries, n_lookups, n_log_calls >>
             /\ written' # written =>
                   /\ Len(written') = Len(written) + 1
                   /\ StartsWith(written'[Len(written')], << 78, 79 >>)]_vars

C16_Witness ==
    /\ pc = "sleep"
    /\ command # None
    /\ command[1].type = << "PING" >>
    /\ command[1].finger = << "index_right" >>
    /\ response[1].result = "UNKNOWN_COMMAND"
    /\ ~response[1].access_granted
    /\ sensor_response = "NO"
    /\ written # <<>>
    /\ n_queries = 0
    /\ access_logs = <<>>

(***************************************************************************)
(* Properties of the gate access system.                                   *)
(***************************************************************************)
\* The cosine similarity of two vectors of one length is at least 0.85.
Clears(a, b) ==
    /\ Dot(a, a) > 0
    /\ Dot(b, b) > 0
    /\ Dot(a, b) > 0
    /\ Dot(a, b) * Dot(a, b) * 10000 >= 7225 * Dot(a, a) * Dot(b, b)

\* The token is whole and of the system's key: every block and the HMAC
\* are sealed under it and the HMAC covers the ciphertext as it is.
Genuine(enc) ==
    /\ \A i \in 1..Len(enc.ciphertext) : enc.ciphertext[i].k = ENCRYPTION_KEY
    /\ enc.hmac.k = ENCRYPTION_KEY
    /\ enc.hmac.over = enc.ciphertext

\* The text a token's blocks hold.
TokenText(enc) == [i \in 1..Len(enc.ciphertext) |-> enc.ciphertext[i].p]

\* The stored row is a candidate for the presented template: it decrypts
\* under the system's key to a vector of the length of the presented one.
Comparable(row, presented_text) ==
    /\ Genuine(row.encrypted_template)
    /\ ~deserialize_template(TokenText(row.encrypted_template)).raised
    /\ ~deserialize_template(presented_text).raised
    /\ Len(deserialize_template(TokenText(row.encrypted_template)).vec)
          = Len(deserialize_template(presented_text).vec)

StoredVec(row) == deserialize_template(TokenText(row.encrypted_template)).vec

\* The active rows of the claimed user that the presented template matches.
Clearing(user_id, presented_text) ==
    { r \in biometric_templates :
        /\ r.user_id = user_id
        /\ r.is_active
        /\ Comparable(r, presented_text)
        /\ Clears(StoredVec(r), deserialize_template(presented_text).vec) }

\* The comparison made for the reading in hand was with a row that the
\* presented template matches.
GenuineMatch ==
    /\ Truthy(sensor_data[1])
    /\ Truthy(sensor_data[2])
    /\ compared # None
    /\ compared[1].result
    /\ compared[1].got.encrypted_template # None
    /\ \E r \in Clearing(sensor_data[1][1], sensor_data[2][1]) :
          r.encrypted_template = compared[1].got.encrypted_template[1]

\* C17: the gate's pin is raised only by open_gate, called in an iteration
\* whose compare_templates returned true for a complete reading that
\* matches a stored template of the claimed user; a denied, faulted or
\* incomplete reading never reaches open_gate.
C17_GateOpensOnlyOnMatch ==
    /\ [][(gpio' = "HIGH" /\ gpio # "HIGH") =>
             /\ apc = "open"
             /\ access_granted = Some(TRUE)
             /\ GenuineMatch]_vars
    /\ [][(apc' \in { "open", "wait" }) =>
             /\ access_granted' = Some(TRUE)
             /\ GenuineMatch']_vars

C17_Witness ==
    /\ apc = "wait"
    /\ gpio = "HIGH"
    /\ access_granted = Some(TRUE)
    /\ GenuineMatch

\* C18 (as claimed): the audit entry of a granted reading does not wait for
\* the gate: while the gate is held open log_access has been called for
\* the reading, and also when run is stopped during the actuation.
C18_AuditDoesNotWaitForGate ==
    /\ apc = "wait" => n_log_access = n_compared
    /\ (run_stop # None /\ run_stop[1].at \in { "open", "wait" }) =>
          n_log_access = n_compared

\* Row r scores at least as high as row c against the presented vector
\* (both clear the threshold, so both dot products are positive).
ScoresAtLeast(r, c, v) ==
    Dot(StoredVec(r), v) * Dot(StoredVec(r), v) * Dot(StoredVec(c), StoredVec(c))
        >= Dot(StoredVec(c), v) * Dot(StoredVec(c), v) * Dot(StoredVec(r), StoredVec(r))

\* C19 (as claimed): when the storage answers, the reading is matched iff
\* some enrolled candidate clears the threshold, and the candidate the
\* decision rests on is the one with the highest score among those that
\* clear it, the lowest id among equal scores.
C19_BestCandidateDecides ==
    (compared # None /\ ~compared[1].got.fault) =>
        LET clearing == Clearing(sensor_data[1][1], sensor_data[2][1])
            v == deserialize_template(sensor_data[2][1]).vec
        IN  /\ compared[1].result <=> (clearing # {})
            /\ compared[1].result =>
                   \E r \in clearing :
                       /\ r.encrypted_template = compared[1].got.encrypted_template[1]
                       /\ \A c \in clearing :
                              /\ ScoresAtLeast(r, c, v)
                              /\ ScoresAtLeast(c, r, v) => r.id <= c.id

\* The presented template and the stored one compared with it are the same
\* non-empty vector of numbers.
SameVector ==
    /\ compared # None
    /\ compared[1].got.encrypted_template # None
    /\ Genuine(compared[1].got.encrypted_template[1])
    /\ ~deserialize_template(sensor_data[2][1]).raised
    /\ ~deserialize_template(TokenText(compared[1].got.encrypted_template[1])).raised
    /\ deserialize_template(TokenText(compared[1].got.encrypted_template[1])).vec
          = deserialize_template(sensor_data[2][1]).vec

\* The score is 1.0, and so at least every threshold up to 1.0.
ScoreIsOne(score) ==
    /\ score.dot > 0
    /\ score.dot * score.dot = score.na * score.nb
    /\ \A t \in { 0 - 100, 0, 50, 85, 100 } : AtLeast(score, t)

ComparisonFaulted ==
    /\ compared # None
    /\ compared[1].got.encrypted_template # None
    /\ LET enc == compared[1].got.encrypted_template[1]
           stored == deserialize_template(TokenText(enc))
           presented == deserialize_template(sensor_data[2][1])
       IN  \/ ~Genuine(enc)
           \/ stored.raised
           \/ presented.raised
           \/ Len(stored.vec) # Len(presented.vec)

\* C21 (as claimed): a reading whose comparison met a processing fault
\* (vectors of different lengths, a field that does not parse, a payload
\* that does not decrypt) does not end in the decision of a non-match:
\* run does not hold access_granted = False for it.
C21_FaultIsNotDenial ==
    ComparisonFaulted => access_granted # Some(FALSE)

\* The row log_access inserts for a reading of this user that was compared
\* and did not match.
DeniedEntry(user_id) == [user_id |-> user_id, access_granted |-> FALSE]

\* C22 (as claimed): the audit entry recorded for a reading that ended in a
\* processing fault differs from the entry recorded for a legitimate
\* non-match of the same user.
C22_AuditTellsErrorFromDenied ==
    [][(apc = "log" /\ ComparisonFaulted /\ gate_logs' # gate_logs) =>
          gate_logs'[Len(gate_logs')] # DeniedEntry(sensor_data[1][1])]_vars

\* The outcome compare_templates has when the stored template is this text
\* in the clear.
ComparedInTheClear(sensor_template, text) ==
    LET stored == deserialize_template(text)
        presented == deserialize_template(sensor_template)
    IN  IF stored.raised \/ presented.raised \/ Len(stored.vec) # Len(presented.vec)
        THEN [result |-> FALSE, score |-> None]
        ELSE LET similarity == cosine_similarity(stored.vec, presented.vec) IN
             [result |-> AtLeast(similarity, threshold),
              score |-> Some([dot |-> similarity.dot, na |-> similarity.na,
                              nb |-> similarity.nb])]

C24_UnitContextReadOnly ==
    /\ [][unit_info' = unit_info]_vars
    /\ [](/\ unit_info \in UnitInfos
          /\ \A i \in 1..Len(results) :
                results[i].response # None =>
                    results[i].response[1].unit_code = unit_info.unit_code
          /\ response # None => response[1].unit_code = unit_info.unit_code
          /\ \A i \in 1..Len(access_logs) : access_logs[i].unit_id = unit_info.id)

\* Three queries were asked of a service constructed for ETEC01: the first
\* failed validation and the last was logged.
C24_Witness ==
    /\ unit_info.unit_code = "ETEC01"
    /\ Len(results) = 3
    /\ results[1].response[1].result = "ERROR"
    /\ results[3].did.insert = Some(TRUE)
    /\ access_logs # <<>>
    /\ access_logs[Len(access_logs)].unit_id = 2

\* C25: the access log is append-only.  A step leaves it as it is or adds
\* one entry at its end, every entry written before staying where and what
\* it was; the id of the entry at position i is i.
C25_LogIsAppendOnly ==
    /\ [][\/ access_logs' = access_logs
          \/ /\ Len(access_logs') = Len(access_logs) + 1
             /\ SubSeq(access_logs', 1, Len(access_logs)) = access_logs
             /\ access_logs'[Len(access_logs')].id = Len(access_logs) + 1]_vars
    /\ [](/\ \A i \in 1..Len(access_logs) : access_logs[i].id = i
          /\ \A i \in 1..Len(results) :
                /\ Len(results[i].logs) <= Len(access_logs)
                /\ SubSeq(access_logs, 1, Len(results[i].logs)) = results[i].logs)

\* Three queries, the first and the last logged, the one between refused
\* at validation: the log holds the two entries in that order.
C25_Witness ==
    /\ Len(results) = 3
    /\ Len(access_logs) = 2
    /\ Len(results[1].logs) = 1
    /\ ~results[2].did.valid
    /\ access_logs[1].person_id # None
    /\ access_logs[2].person_id = None

\* The bytes _send_response writes for a response.
BytesFor(resp) ==
    IF resp.access_granted THEN << 89, 69, 83, 92, 110 >> ELSE << 78, 79, 92, 110 >>

\* C26: the listener handles one command at a time.  A line is read only
\* at the start of an iteration, when no command and no response of an
\* earlier line is in hand; a response is written only in the iteration of
\* the command it answers, after that command was processed and before the
\* iteration ends, and it is added after everything written before: so
\* what is written is in the order of the commands, and no two decision
\* cycles overlap.
C26_OneCommandAtATime ==
    /\ [][(line' # None /\ line' # line) =>
             /\ pc = "poll"
             /\ line = None
             /\ command = None
             /\ response = None
             /\ written' = written]_vars
    /\ [][(written' # written) =>
             /\ pc = "send"
             /\ pc' = "sleep"
             /\ line' = line
             /\ command' = command
             /\ command = read_sensor_command(line[1], n_cycles + 1).command
             /\ response[1] \in AnswersTo(command[1])
             /\ written' = Append(written, BytesFor(response[1]))]_vars
    /\ [](pc = "poll" => (line = None /\ command = None /\ response = None))

\* Two commands in two iterations: the first (a query refused, or an
\* unknown command) was answered NO, then the second was read and answered
\* YES.
C26_Witness ==
    /\ n_cycles = 1
    /\ pc = "sleep"
    /\ written = << << 78, 79, 92, 110 >>, << 89, 69, 83, 92, 110 >> >>
    /\ response # None
    /\ response[1].access_granted

\* The person of a response, as the access log records it.
PersonIdOf(resp) == IF resp.person = None THEN None ELSE Some(resp.person[1].id)

\* C27 (as claimed): when _process_command returns the response of a QUERY
\* or VERIFY command, the audit entry of that query is in the access log
\* (the step that produces the response has appended it, for the person of
\* the response), and it is still the last entry when YES or NO is written.
C27_AuditBeforeResponse ==
    /\ [][(pc = "process" /\ pc' = "send" /\ query' # None) =>
             /\ Len(access_logs') = Len(access_logs) + 1
             /\ access_logs'[Len(access_logs')].person_id = PersonIdOf(response'[1])]_vars
    /\ [][(pc = "send" /\ query # None /\ written' # written) =>
             /\ access_logs # <<>>
             /\ access_logs' = access_logs
             /\ Len(access_logs) = n_queries]_vars

C29_FirstFailingCheckDecides ==
    query # None =>
        LET did == query[1].did
            r == query[1].response[1]
            blank == Blank(did.template)
            bad_finger == did.finger \notin { << f >> : f \in TenFingers }
            undecodable == ~B64Decode(did.template).ok
        IN  /\ did.valid <=> ~(blank \/ bad_finger \/ undecodable)
            /\ blank => r.error = << "Template data is required" >>
            /\ (~blank /\ bad_finger) =>
                   r.error[1] = "Invalid finger type. Valid options: "
            /\ (~blank /\ ~bad_finger /\ undecodable) =>
                   r.error = << "Invalid base64 template format" >>

\* A query with an invalid finger and a template that does not decode was
\* answered with the message about the finger.
C29_Witness ==
    /\ pc = "send"
    /\ query # None
    /\ query[1].did.template = << "Q" >>
    /\ ~B64Decode(query[1].did.template).ok
    /\ query[1].did.finger = << "invalid_finger" >>
    /\ response[1].error[1] = "Invalid finger type. Valid options: "

\* The command in hand is a QUERY or VERIFY command.
IsQuery ==
    /\ command # None
    /\ Upper(command[1].type) \in { << "QUERY" >>, << "VERIFY" >> }

\* C30: what is written to the sensor begins with YES only for the
\* response of a QUERY or VERIFY command whose result is GRANTED, a person
\* having been found by the storage lookup, or for the response of a TEST
\* command; for DENIED, ERROR and UNKNOWN_COMMAND it begins with NO.
C30_YesOnlyForGrantedOrTest ==
    [][(written' # written) =>
          LET r == response[1]
              out == written'[Len(written')]
          IN  /\ StartsWith(out, << 89, 69, 83 >>) \/ StartsWith(out, << 78, 79 >>)
              /\ StartsWith(out, << 89, 69, 83 >>) =>
                    \/ /\ IsQuery
                       /\ r.result = "GRANTED"
                       /\ r.person # None
                       /\ query # None
                       /\ query[1].did.lookup # None
                       /\ query[1].did.lookup[1].row # None
                    \/ /\ IsTest
                       /\ r.result = "TEST_OK"
              /\ r.result \in { "DENIED", "ERROR", "UNKNOWN_COMMAND" } =>
                    StartsWith(out, << 78, 79 >>)
              /\ r.result \in { "GRANTED", "DENIED", "ERROR", "UNKNOWN_COMMAND",
                                "TEST_OK" }]_vars

\* A query was DENIED (the lookup found no row) and NO was written for it.
C30_Witness ==
    /\ pc = "sleep"
    /\ IsQuery
    /\ response[1].result = "DENIED"
    /\ "error" \notin DOMAIN response[1]
    /\ written = << << 78, 79, 92, 110 >> >>

\* C31: in every entry of the access log, python_verified is true iff
\* person_id is set, and unit_id is the id of the service's unit; the
\* entry a query appended has python_verified true iff the query's result
\* is GRANTED, and its person_id is the id of the person the storage
\* lookup found, which is the person of the response.
C31_AuditEntryMatchesDecision ==
    /\ \A k \in 1..Len(access_logs) :
          /\ access_logs[k].python_verified <=> (access_logs[k].person_id # None)
          /\ access_logs[k].unit_id = unit_info.id
          /\ access_logs[k].biometric_device = "R307"
    /\ \A i \in 1..Len(results) :
          \A k \in 1..Len(Appended(i)) :
              LET entry == Appended(i)[k]
                  r == results[i].response[1]
                  row == results[i].did.lookup[1].row
              IN  /\ entry.python_verified <=> (r.result = "GRANTED")
                  /\ entry.person_id = PersonIdOf(r)
                  /\ entry.person_id =
                        IF row = None THEN None ELSE Some(row[1].person_id)
                  /\ r.result \in { "GRANTED", "DENIED" }

\* A granted query and a denied one were logged, in that order.
C31_Witness ==
    /\ Len(results) >= 2
    /\ results[1].response[1].result = "GRANTED"
    /\ results[2].response[1].result = "DENIED"
    /\ Len(access_logs) >= 2
    /\ access_logs[1].python_verified
    /\ access_logs[1].person_id # None
    /\ ~access_logs[2].python_verified
    /\ access_logs[2].person_id = None

\* C32: the constructor resolves the unit.  When the storage returned a
\* unit, unit_info is that unit; when it returned none, unit_info is a
\* default unit with id 1 and the unit_code asked for, the service exists
\* and the entries it logs carry unit_id 1; when the storage raised, the
\* constructor raised: no service exists, and no query is answered or
\* logged.
C32_UnitResolution ==
    /\ construction = None => (pc = "new" /\ results = <<>> /\ access_logs = <<>>)
    /\ construction # None =>
          LET c == construction[1] IN
          /\ c.got.raised =>
                /\ pc = "failed"
                /\ unit_info = None
                /\ results = <<>>
                /\ access_logs = <<>>
          /\ (~c.got.raised /\ c.got.unit # None) =>
                /\ pc = "ready"
                /\ unit_info = c.got.unit[1]
                /\ unit_info.unit_code = c.unit_code
          /\ (~c.got.raised /\ c.got.unit = None) =>
                /\ pc = "ready"
                /\ unit_info = [id |-> 1, name |-> "Default Unit",
                                unit_code |-> c.unit_code]
                /\ \A k \in 1..Len(access_logs) : access_logs[k].unit_id = 1
                /\ \A i \in 1..Len(results) :
                      results[i].response[1].unit_code = c.unit_code

\* The storage holds no unit ETEC99: the service was constructed with the
\* default unit and has logged a query under unit_id 1.
C32_Witness ==
    /\ construction # None
    /\ construction[1].unit_code = "ETEC99"
    /\ ~construction[1].got.raised
    /\ construction[1].got.unit = None
    /\ unit_info.id = 1
    /\ unit_info.unit_code = "ETEC99"
    /\ access_logs # <<>>
    /\ access_logs[1].unit_id = 1

(***************************************************************************)
(* Properties of the gate access system, continued.                        *)
(***************************************************************************)
\* No active template is stored for the user of the reading in hand.
NoActiveTemplate ==
    \A r \in biometric_templates :
        ~(r.user_id = sensor_data[1][1] /\ r.is_active)

\* C33: compare_templates fails closed and does not raise.  When no active
\* template is stored for the user, when the storage call fails, when the
\* stored payload does not decrypt, when either template does not parse or
\* the vectors differ in length, it returns false: run holds
\* access_granted = False, does not reach open_gate and the pin is not
\* raised; and run never ends by an exception of compare_templates.
C33_CompareFailsClosed ==
    /\ []((compared # None /\
           (NoActiveTemplate \/ compared[1].got.fault \/ ComparisonFaulted)) =>
             /\ compared[1].result = FALSE
             /\ compared[1].score = None
             /\ access_granted = Some(FALSE)
             /\ apc \in { "log", "sleep" })
    /\ []((run_stop # None /\ run_stop[1].cause = "exception") =>
             run_stop[1].at # "compare")
    /\ [](apc \in { "open", "wait", "log" } => compared # None)
    /\ [][(compared # None /\
           (NoActiveTemplate \/ compared[1].got.fault \/ ComparisonFaulted)) =>
             (gpio' = "HIGH" => gpio = "HIGH")]_vars

\* The user's only template is not active; the template presented equals
\* it, and the reading was denied.
C33_Witness ==
    /\ compared # None
    /\ NoActiveTemplate
    /\ \E r \in biometric_templates :
          /\ r.user_id = sensor_data[1][1]
          /\ ~r.is_active
          /\ r.encrypted_template = encrypt_template(sensor_data[2][1])
    /\ ~compared[1].got.fault
    /\ access_granted = Some(FALSE)
    /\ apc = "log"
    /\ gpio = "LOW"


\* C34 (as claimed): every reading that carries a user_id and a template
\* gets exactly one log_access call, made after the decision and with the
\* decision's value, and a fault inside log_access never stops the loop:
\* run is not ended by an exception that left log_access.
C34_OneAuditCallAndFaultSwallowed ==
    /\ (apc = "sleep" /\ compared # None) => n_log_access = n_compared
    /\ apc = "log" => /\ compared # None
                      /\ access_granted = Some(compared[1].result)
                      /\ n_log_access + 1 = n_compared
    /\ \A i \in 1..Len(gate_logs) :
          gate_logs[i].access_granted \in BOOLEAN
    /\ ~(run_stop # None /\ run_stop[1].cause = "exception"
                         /\ run_stop[1].at = "log")


\* The reading in hand lacks its user_id or its template (the key is
\* absent, or its value is the empty string), or there is no reading: no
\* data waiting, a line that is no JSON, JSON that is no object.
Incomplete ==
    \/ sensor_data[1] \in { None, Some(<<>>) }
    \/ sensor_data[2] \in { None, Some(<<>>) }

\* What an incomplete reading must leave alone: the comparisons made, the
\* gate pin, the audit rows and calls, the decision, the stored templates.
LoopState ==
    << n_compared, gpio, gate_logs, n_log_access, access_granted, compared,
       biometric_templates >>

\* C35: a poll that yields no data, a line that is not valid JSON, or a
\* reading without user_id or template is skipped: run goes from the read
\* straight to its sleep and back to the next read with no comparison, no
\* gate actuation and no audit entry, and nothing else of the loop changes.
C35_IncompleteReadingIsSkipped ==
    /\ [](apc \in { "compare", "open", "wait", "log" } => ~Incomplete)
    /\ [](\A msg \in SensorMessages :
             (~msg.waiting \/ ~msg.json \/ ~msg.object) =>
                read_biometric_data(msg) = << None, None >>)
    /\ [][/\ (apc = "read" /\ apc' # "stopped" /\ Incomplete') =>
                (apc' = "sleep" /\ UNCHANGED LoopState)
          /\ (apc = "sleep" /\ apc' # "stopped" /\ Incomplete) =>
                (apc' = "read" /\ UNCHANGED LoopState)]_vars

C35_Witness ==
    /\ apc = "sleep"
    /\ sensor_data[1] = None
    /\ sensor_data[2] = Some(<< "1", ",", "2" >>)
    /\ n_compared = 0
    /\ n_log_access = 0
    /\ gpio = "LOW"


\* C36 (as claimed): whenever run polls for the next reading the gate's pin
\* is LOW, and when an interrupt ends run the gate is LOW as shutdown
\* begins, also when the interrupt arrives while the gate is held open.
C36_GateClosedWhenPollingOrStopped ==
    /\ [](apc = "read" => gpio = "LOW")
    /\ [][(run_stop = None /\ run_stop' # None /\
           run_stop'[1].cause = "interrupt") => gpio = "LOW"]_vars


\* C37 (as claimed): once run has shut down, everything __init__ opened is
\* released: the sensor's port, the GPIO, the system's database connection
\* and the matcher's.
C37_ShutdownReleasesEverything ==
    run_stop # None => open_resources = {}


(***************************************************************************)
(* Properties of the listener's start.                                     *)
(***************************************************************************)
\* What a call of listen_for_commands without an open port leaves alone:
\* the line and command read, the query processed, the response and what
\* was written, the audit entries and the counts of all of these.
ListenerWork ==
    << line, command, response, query, sensor_response, written, access_logs,
       n_cycles, n_nonempty, n_queries, n_lookups, n_log_calls, biometrics >>

\* C38: listen_for_commands called while the port is not open (never
\* opened, or closed when an earlier listener ended) returns at once: the
\* loop runs only with an open port, and while no listener runs and the
\* port is closed a step either opens the port or is such a call, which
\* reads no command, processes no query, writes no response and appends no
\* audit entry.
C38_NotConnectedReturnsAtOnce ==
    /\ [](pc # "stopped" => is_open)
    /\ [][(pc = "stopped" /\ ~is_open /\ ~is_open') =>
             /\ pc' = "stopped"
             /\ stop' = Some([cause |-> "not_connected", at |-> "entry"])
             /\ UNCHANGED ListenerWork]_vars

\* Called on a port that an interrupted listener closed after it had read
\* a line.
C38_Witness ==
    /\ pc = "stopped"
    /\ ~is_open
    /\ stop = Some([cause |-> "not_connected", at |-> "entry"])
    /\ n_nonempty > 0
=============================================================================
